---------------------------- MODULE Spec2Model ----------------------------
(***************************************************************************)
(* A model of the yahat HTTP server core (jgaa/yahat-cpp):                 *)
(*   - the route table and the longest-prefix dispatcher                   *)
(*     (HttpServer::addRoute, HttpServer::onRequest),                      *)
(*   - the per-connection session loop (DoSession, makeReply),             *)
(*   - the SSE continuation (SseHandler::send, SseQueueHandler).           *)
(*                                                                         *)
(* Strings (route prefixes, request targets) are sequences of one-letter   *)
(* strings over Alphabet.  Four specifications share the variables:        *)
(*   SpecRoute  the server being configured (addRoute) and onRequest       *)
(*              being called on the resulting route table;                 *)
(*   Spec       one connection session after another on a configured       *)
(*              server;                                                    *)
(*   SpecSse    one queue-based SSE continuation with its producers, a     *)
(*              thread calling closeSse and the peer;                      *)
(*   SpecSseFair  SpecSse with the worker, the timer and the calls in      *)
(*              progress being scheduled fairly.                           *)
(***************************************************************************)
EXTENDS Integers, Sequences, FiniteSets, TLC

VARIABLES
    cfg,            \* HttpConfig + whether an authenticator functor was given
    routes,         \* HttpServer::routes_ : prefix -> handler
    pc,             \* where the session coroutine (or the server) stands
    close,          \* DoSession's local `close`
    request,        \* the current Request (curr_req)
    response,       \* the Response the session is handling
    reply,          \* the http::response built by makeReply
    invoked,        \* handlers called for the current request, with req.route
    handlerResult,  \* what the handler call did (a member of HandlerOutcomes)
    lastWrite,      \* how the last http::async_write of a reply ended
    nreq,           \* how many requests http::async_read has delivered on
                    \* this connection
    written,        \* the requests (by number) whose reply was written
    \* the queue-based SSE continuation (SseQueueHandler) of the session
    sse_initialized,\* SseHandler::sse_initialized_
    active,         \* SseQueueHandler::active_
    queue,          \* SseQueueHandler::queue_
    mutex,          \* SseQueueHandler::mutex_: the producer holding it, or 0
    timer,          \* SseQueueHandler::timer_
    wpc,            \* where the worker stands in proceeding() / send()
    cur,            \* the message send() was called with
    ppc,            \* where each producer thread stands in sendSse()
    pmsg,           \* the message each producer is enqueueing
    popped,         \* the worker popped the element that is being pushed
    enq,            \* the non-empty messages in the order sendSse took them
    nempty,         \* how many empty messages were enqueued
    closer,         \* where the thread calling closeSse() stands
    peer,           \* the client's end of the connection
    probe,          \* the one-byte read posted by send()
    wire,           \* the chunks written to the client, in order
    headers,        \* how many times the response header was written
    writeFailed,    \* a header or chunk write has failed
    \* the metrics registry (Metrics)
    metrics_,       \* Metrics::metrics_ : key -> metric
    mres,           \* what the last call on the registry did and returned
    out,            \* what Metrics::generate wrote to its target
    \* one Counter used by several threads
    value_,         \* Counter::value_
    incd,           \* the values passed to inc(), in the order of fetch_add
    tpc,            \* where each thread stands in inc()
    lastRead,       \* what value() returned last
    \* one Histogram
    sum_,           \* Histogram::sum_
    count_,         \* Histogram::count_
    buckets_,       \* Histogram::buckets_
    hobserved,      \* the values passed to Histogram::observe, in order
    \* one Summary
    summary_sum_,   \* Summary::sum_
    summary_count_, \* Summary::count_
    observations_,  \* Summary::observations_ (the ring buffer)
    sobserved,      \* the values passed to Summary::observe, in order
    qres,           \* what calculateQuantiles saw and returned
    \* one Stateset
    state_values_,  \* Stateset::state_values_ (index from 0)
    sres,           \* what the last call on the Stateset was and returned
    \* one Gauge and the Scoped guards on it
    gauge_value_,   \* Gauge::value_
    scoped,         \* each guard: whether it exists, and Scoped::metric_
    nscoped,        \* how many times Gauge::scoped() was called
    \* the server's reactor and threads (start, run, stop)
    ctx_stopped,    \* io_context::stopped() of HttpServer::ctx_
    workers_,       \* HttpServer::workers_ : where each worker thread stands
    tasksteps,      \* handlers of accept loops and sessions run so far
    stoppc,         \* where the thread that called stop() stands
    joined,         \* how many workers stop() has joined
    promise_,       \* HttpServer::promise_ has its value
    runpc,           \* where the thread in run() stands
    lpc,            \* where a listener's accept coroutine stands
    errorCnt,       \* the accept loop's local errorCnt
    acceptLog,      \* failed accepts before each successful one, and since
    sessions,       \* the session tasks spawned by the accept loop
    http_requests_, \* YahatInstanceMetrics::http_requests_ : key -> Counter *
    objects,        \* the Counter objects AddCounter has made, by address
    hres,           \* the last call on the request counters
    timers,         \* the ScopedTimer objects: metric_, and whose timing
    started,        \* the timings started by scoped(): cancelled, released
    tobserved       \* the observe() calls made by ~ScopedTimer

sessionVars == <<cfg, routes, pc, close, request, response, reply, invoked,
                 handlerResult, lastWrite, nreq, written>>

sseVars == <<sse_initialized, active, queue, mutex, timer, wpc, cur, ppc,
             pmsg, popped, enq, nempty, closer, peer, probe, wire, headers,
             writeFailed>>

registryVars == <<metrics_, mres, out>>

counterVars == <<value_, incd, tpc, lastRead>>

histogramVars == <<sum_, count_, buckets_, hobserved>>

summaryVars == <<summary_sum_, summary_count_, observations_, sobserved,
                 qres>>

statesetVars == <<state_values_, sres>>

gaugeVars == <<gauge_value_, scoped, nscoped>>

instrumentVars == <<counterVars, histogramVars, summaryVars, statesetVars,
                    gaugeVars>>

metricsVars == <<registryVars, instrumentVars>>

listenerVars == <<lpc, errorCnt, acceptLog, sessions>>

requestVars == <<http_requests_, objects, hres>>

timerVars == <<timers, started, tobserved>>

serverVars == <<ctx_stopped, workers_, tasksteps, stoppc, joined, promise_,
                runpc, listenerVars, requestVars, timerVars>>

vars == <<sessionVars, sseVars, metricsVars, serverVars>>

---------------------------------------------------------------------------
(* Bounds of the model                                                     *)

MaxRouteLen == 2
MaxTargetLen == 3
MaxRoutes == 2

\* requests followed on one connection
MaxRequests == 2

---------------------------------------------------------------------------
(* Strings                                                                 *)

Alphabet == {"/", "a"}

Str(n) == UNION {[1..k -> Alphabet] : k \in 0..n}

Prefixes == Str(MaxRouteLen)

Targets == Str(MaxTargetLen) \ {<<>>}

Handlers == {"h1", "h2"}

\* the character codes std::map<std::string, ...> orders its keys by
CharCode(c) ==
    CASE c = "\"" -> 34
      [] c = "#" -> 35
      [] c = "," -> 44
      [] c = "/" -> 47
      [] c = "1" -> 49
      [] c = "=" -> 61
      [] c = "_" -> 95
      [] c = "a" -> 97
      [] c = "b" -> 98
      [] c = "m" -> 109
      [] c = "r" -> 114
      [] c = "x" -> 120
      [] c = "y" -> 121
      [] c = "{" -> 123
      [] c = "}" -> 125

RECURSIVE StrLess(_, _)
StrLess(s, t) ==
    IF t = <<>> THEN FALSE
    ELSE IF s = <<>> THEN TRUE
    ELSE IF Head(s) = Head(t) THEN StrLess(Tail(s), Tail(t))
    ELSE CharCode(Head(s)) < CharCode(Head(t))

\* the first key of a non-empty key set in std::map iteration order
FirstKey(keys) == CHOOSE k \in keys : \A o \in keys \ {k} : StrLess(k, o)

---------------------------------------------------------------------------
(* Request, Response and the wire reply                                    *)

Types == {"GET", "PUT", "PATCH", "POST", "DELETE", "OPTIONS"}

NoRoute == <<>>

NoRequest ==
    [type |-> "NONE", target |-> <<>>, route |-> NoRoute,
     keep_alive |-> FALSE, access |-> FALSE, authenticated |-> FALSE]

\* Response(code, reason): close = false, no continuation (HttpServer.h)
Resp(code, reason) ==
    [code |-> code, reason |-> reason, close |-> FALSE, cont |-> FALSE]

NoResponse == Resp(0, "")

CorsHeaders ==
    {"Access-Control-Allow-Origin", "Access-Control-Allow-Credentials",
     "Access-Control-Allow-Methods", "Access-Control-Allow-Headers"}

NoReply ==
    [code |-> 0, reason |-> "", connection |-> "", headers |-> {},
     www_authenticate |-> <<>>, body |-> "", from |-> "none"]

\* What a RequestHandler::onReqest call can do, by its contract
\* ("\throws std::exception on error, \throws Response if an internal state
\* triggered an exception that provided a valid response"): return a
\* Response, which may carry a continuation; throw a Response to be sent;
\* or throw a std::exception.
HandlerOutcomes ==
    [kind : {"return"}, code : {200}, reason : {"OK"},
     close : BOOLEAN, cont : BOOLEAN]
    \cup
    [kind : {"throwResponse"}, code : {403}, reason : {"Forbidden"},
     close : BOOLEAN, cont : {FALSE}]
    \cup
    [kind : {"throwException"}, code : {0}, reason : {""},
     close : {FALSE}, cont : {FALSE}]

\* no handler was called
NoOutcome ==
    [kind |-> "none", code |-> 0, reason |-> "", close |-> FALSE,
     cont |-> FALSE]

OutcomeResponse(o) ==
    [code |-> o.code, reason |-> o.reason, close |-> o.close, cont |-> o.cont]

---------------------------------------------------------------------------
(* HttpServer::addRoute and HttpServer::onRequest                          *)

\* the test onRequest applies to one route of the table
RouteMatchesNoBoundary(route, tw) ==
    /\ Len(tw) >= Len(route)
    /\ SubSeq(tw, 1, Len(route)) = route

RouteMatches(route, tw) ==
    /\ Len(tw) >= Len(route)
    /\ (Len(tw) = Len(route) \/ tw[Len(route) + 1] = "/")
    /\ SubSeq(tw, 1, Len(route)) = route

\* one iteration of the loop over routes_: the new best_route
BetterRouteShortest(route, tw, best) ==
    IF RouteMatches(route, tw) /\ (best = NoRoute \/ Len(best) > Len(route))
    THEN route
    ELSE best

BetterRoute(route, tw, best) ==
    IF RouteMatches(route, tw) /\ (best = NoRoute \/ Len(best) < Len(route))
    THEN route
    ELSE best

\* the loop over routes_ in key order; best = NoRoute is best_handler = {}
RECURSIVE FindRoute(_, _, _)
FindRoute(keys, tw, best) ==
    IF keys = {} THEN best
    ELSE LET route == FirstKey(keys)
         IN  FindRoute(keys \ {route}, tw, BetterRoute(route, tw, best))

\* what the try/catch around the handler call returns
HandlerReplyAlways500(o) == Resp(500, "Internal server error")

HandlerReply(o) ==
    IF o.kind \in {"return", "throwResponse"}
    THEN OutcomeResponse(o)
    ELSE Resp(500, "Internal server error")

\* onRequest on route table rts, target tw, with the handler behaving as o
onRequest(rts, tw, o) ==
    LET best_route == FindRoute(DOMAIN rts, tw, NoRoute)
    IN  IF best_route # NoRoute
        THEN [route    |-> best_route,
              invoked  |-> {[handler |-> rts[best_route], route |-> best_route]},
              result   |-> o,
              response |-> HandlerReply(o)]
        ELSE [route    |-> NoRoute,
              invoked  |-> {},
              result   |-> NoOutcome,
              response |-> Resp(404, "Document not found")]


---------------------------------------------------------------------------
(* HttpConfig, makeReply and the session loop DoSession                    *)

Realms == {"", "yahat"}

Configs ==
    [auto_handle_cors : BOOLEAN, enable_http_basic_auth : BOOLEAN,
     http_basic_auth_realm : Realms, has_authenticator : BOOLEAN]

\* HttpConfig's member initialisers, with an authenticator given
DefaultConfig ==
    [auto_handle_cors |-> TRUE, enable_http_basic_auth |-> TRUE,
     http_basic_auth_realm |-> "", has_authenticator |-> TRUE]

AuthVerdictsAny(c) == BOOLEAN

\* request.auth.access after the authenticator step: the functor's verdict,
\* or Auth's default (access = false) when the functor is empty
AuthVerdicts(c) == IF c.has_authenticator THEN BOOLEAN ELSE {FALSE}

\* whether DoSession calls the authenticator for a request of type rt: it
\* does whenever the functor is set, before it looks at the type
AuthenticatorCalled(c, rt) == c.has_authenticator

\* the headers makeReply sets for the four CORS fields
CorsFieldsNone(cors) == {}

CorsFields(cors) == IF cors THEN CorsHeaders ELSE {}

\* makeReply(server, res, r, closeConnection, lr, rt); r.cors is passed as
\* cors, the handlers of the model return no body
makeReply(r, cors, closeConnection, rt, from) ==
    [code       |-> r.code,
     reason     |-> r.reason,
     connection |-> IF closeConnection THEN "close" ELSE "keep-alive",
     headers    |-> {"Server", "Connection"}
                    \cup (IF rt # "OPTIONS" THEN {"Content-Type"} ELSE {})
                    \cup CorsFields(cors),
     www_authenticate |-> <<>>,
     body       |-> IF rt # "OPTIONS" THEN "status-json" ELSE "",
     from       |-> from]

\* the WWW-Authenticate field of the 401 reply; <<>> is "not set"
WwwAuthenticateAlwaysBasic(c) ==
    IF c.enable_http_basic_auth THEN <<"Basic">> ELSE <<>>

WwwAuthenticate(c) ==
    IF c.enable_http_basic_auth
    THEN IF c.http_basic_auth_realm # ""
         THEN <<"Basic realm=", c.http_basic_auth_realm>>
         ELSE <<"Basic">>
    ELSE <<>>

\* the test that answers a request with the dummy CORS reply
IsCorsPreflightNever(c, rt) == FALSE

IsCorsPreflight(c, rt) == rt = "OPTIONS" /\ c.auto_handle_cors

LoopNextShutdown(cl) == "Shutdown"

\* the loop condition while(!close), evaluated after `continue` or at the
\* end of the loop body
LoopNext(cl) == IF cl THEN "Shutdown" ELSE "Reading"

\* `close` after cont->proceed() has returned
CloseAfterContinuationKeep(cl) == cl

CloseAfterContinuation(cl) == TRUE

\* where the loop body goes once onRequest has returned
AfterDispatchReadOn(cont) == "Reading"

AfterDispatch(cont) == IF cont THEN "Continuation" ELSE "Writing"

\* http::async_read ended with end_of_stream or an error: break
ReadEnd ==
    /\ pc = "Reading"
    /\ pc' = "Shutdown"
    /\ UNCHANGED <<cfg, routes, close, request, response, reply, invoked,
                   handlerResult, lastWrite, nreq, written>>
    /\ UNCHANGED sseVars
    /\ UNCHANGED metricsVars
    /\ UNCHANGED serverVars

\* a request was read, but decompressGzip or to_type throws: the exception
\* leaves DoSession and is caught by the coroutine that called it
ReadUndecodable(keep_alive) ==
    /\ pc = "Reading"
    /\ pc' = "Aborted"
    /\ close' = (close \/ ~keep_alive)
    /\ request' = NoRequest
    /\ response' = NoResponse
    /\ reply' = NoReply
    /\ invoked' = {}
    /\ handlerResult' = NoOutcome
    /\ lastWrite' = "none"
    /\ nreq < MaxRequests
    /\ nreq' = nreq + 1
    /\ UNCHANGED <<cfg, routes, written>>
    /\ UNCHANGED sseVars
    /\ UNCHANGED metricsVars
    /\ UNCHANGED serverVars

\* a request was read and decoded; the loop body runs up to the write of the
\* reply or up to cont->proceed()
ReadRequest(rt, target, keep_alive, access, o) ==
    /\ pc = "Reading"
    /\ lastWrite' = "none"
    /\ nreq < MaxRequests
    /\ nreq' = nreq + 1
    /\ UNCHANGED <<cfg, routes, written>>
    /\ UNCHANGED sseVars
    /\ UNCHANGED metricsVars
    /\ UNCHANGED serverVars
    /\ LET cl == close \/ ~keep_alive
           req == [type |-> rt, target |-> target, route |-> NoRoute,
                   keep_alive |-> keep_alive, access |-> access,
                   authenticated |-> AuthenticatorCalled(cfg, rt)]
       IN  IF IsCorsPreflight(cfg, rt)
           THEN /\ request' = req
                /\ response' = Resp(200, "OK")
                /\ reply' = makeReply(Resp(200, "OK"), TRUE, cl, rt, "cors")
                /\ close' = cl
                /\ invoked' = {}
                /\ handlerResult' = NoOutcome
                /\ pc' = "Writing"
           ELSE IF ~access
           THEN /\ request' = req
                /\ response' = Resp(401, "Access Denied!")
                /\ reply' = [makeReply(Resp(401, "Access Denied!"),
                                       cfg.auto_handle_cors, cl, rt,
                                       "unauthorized")
                             EXCEPT !.www_authenticate = WwwAuthenticate(cfg)]
                /\ close' = cl
                /\ invoked' = {}
                /\ handlerResult' = NoOutcome
                /\ pc' = "Writing"
           ELSE LET d == onRequest(routes, target, o)
                    cl2 == cl \/ d.response.close
                IN  /\ request' = [req EXCEPT !.route = d.route]
                    /\ response' = d.response
                    /\ invoked' = d.invoked
                    /\ handlerResult' = d.result
                    /\ close' = cl2
                    /\ pc' = AfterDispatch(d.response.cont)
                    /\ IF d.response.cont
                       THEN reply' = NoReply
                       ELSE reply' = makeReply(d.response,
                                               cfg.auto_handle_cors, cl2,
                                               rt, "handler")

\* http::async_write of the reply completes, with or without an error; the
\* loop body ends (its locals are destroyed) or, for a handler's reply that
\* failed to go out, DoSession returns
WriteReply(ok) ==
    /\ pc = "Writing"
    /\ lastWrite' = IF ok THEN "ok" ELSE "failed"
    /\ pc' = IF ok \/ reply.from \in {"cors", "unauthorized"}
             THEN LoopNext(close)
             ELSE "Returned"
    /\ request' = NoRequest
    /\ response' = NoResponse
    /\ reply' = NoReply
    /\ invoked' = {}
    /\ handlerResult' = NoOutcome
    /\ written' = IF ok THEN Append(written, nreq) ELSE written
    /\ UNCHANGED <<cfg, routes, close, nreq>>
    /\ UNCHANGED sseVars
    /\ UNCHANGED metricsVars
    /\ UNCHANGED serverVars

\* cont->proceed(stream_wrapper, yield) returns; the loop body ends
ContinuationReturns ==
    /\ pc = "Continuation"
    /\ close' = CloseAfterContinuation(close)
    /\ pc' = LoopNext(close')
    /\ request' = NoRequest
    /\ response' = NoResponse
    /\ invoked' = {}
    /\ handlerResult' = NoOutcome
    /\ UNCHANGED <<cfg, routes, reply, lastWrite, nreq, written>>
    /\ UNCHANGED sseVars
    /\ UNCHANGED metricsVars
    /\ UNCHANGED serverVars

\* after the loop: async_shutdown (TLS) or socket().shutdown(shutdown_send)
Shutdown ==
    /\ pc = "Shutdown"
    /\ pc' = "Closed"
    /\ UNCHANGED <<cfg, routes, close, request, response, reply, invoked,
                   handlerResult, lastWrite, nreq, written>>
    /\ UNCHANGED sseVars
    /\ UNCHANGED metricsVars
    /\ UNCHANGED serverVars

\* the accept loop spawns DoSession for the next accepted socket
NewSession ==
    /\ pc \in {"Closed", "Returned", "Aborted"}
    /\ pc' = "Reading"
    /\ close' = FALSE
    /\ request' = NoRequest
    /\ response' = NoResponse
    /\ reply' = NoReply
    /\ invoked' = {}
    /\ handlerResult' = NoOutcome
    /\ lastWrite' = "none"
    /\ nreq' = 0
    /\ written' = <<>>
    /\ UNCHANGED <<cfg, routes>>
    /\ UNCHANGED sseVars
    /\ UNCHANGED metricsVars
    /\ UNCHANGED serverVars

---------------------------------------------------------------------------
(* The queue-based SSE continuation: SseHandler::send and SseQueueHandler  *)

MaxMsgs == 2

MaxEmpty == 1

NumProducers == 2

Producers == 1..NumProducers

\* the empty string, which send() does not write as a chunk
EmptyMsg == 0

\* what queue_.front() yields when it reads an element that a push has not
\* finished constructing: bytes that are no enqueued message
Garbage == -1

MsgIds == 1..MaxMsgs

\* the values of the SSE variables outside a continuation
SseIdle ==
    /\ sse_initialized = FALSE
    /\ active = FALSE
    /\ queue = <<>>
    /\ mutex = 0
    /\ timer = "idle"
    /\ wpc = "created"
    /\ cur = EmptyMsg
    /\ ppc = [p \in Producers |-> "idle"]
    /\ pmsg = [p \in Producers |-> EmptyMsg]
    /\ popped = FALSE
    /\ enq = <<>>
    /\ nempty = 0
    /\ closer = "idle"
    /\ peer = "open"
    /\ probe = "none"
    /\ wire = <<>>
    /\ headers = 0
    /\ writeFailed = FALSE

\* The worker reads and writes queue_ without taking mutex_, so its accesses
\* race with a push that is going on.  A push constructs the element in the
\* free slot at the back and then advances the end of the queue; the worker,
\* unsynchronised, may see either of the two writes without the other.
\* InFlight is the set of messages being pushed whose slot the worker has
\* not popped.
InFlight ==
    IF popped THEN {}
    ELSE {pmsg[p] : p \in {r \in Producers : ppc[r] = "pushing"}}

Racing == InFlight # {}

\* the messages a producer may pass to sendSse next
NextMessages ==
    (IF Len(enq) < MaxMsgs THEN {Len(enq) + 1} ELSE {})
    \cup (IF nempty < MaxEmpty THEN {EmptyMsg} ELSE {})

\* timer_.cancel_one() / timer_.cancel(): a pending wait completes with
\* operation_aborted; without a pending wait nothing happens
Cancelled(t) == IF t = "armed" THEN "cancelled" ELSE t

\* queue_.empty() as the worker sees it: during a push into the empty queue
\* the end of the queue may or may not look advanced already
QueueEmpty(q, inflight) ==
    IF q = <<>> /\ inflight # {} THEN BOOLEAN ELSE {q = <<>>}

\* queue_.front() as the worker sees it: the slot of a push in progress holds
\* the message or what is there before the message is constructed
QueueFront(q, inflight) ==
    IF q # <<>> THEN {Head(q)} ELSE inflight \cup {Garbage}

\* queue_ after the worker's queue_.pop(); popping the slot of a push in
\* progress leaves the queue without that element
QueuePop(q) == IF q # <<>> THEN Tail(q) ELSE q

\* queue_ after a producer's queue_.push(m); taken tells that the worker
\* has popped the slot of this push
QueuePush(q, m, taken) == IF taken THEN q ELSE Append(q, m)

\* sendSse: lock_guard lock{mutex_}; queue_.push(std::move(message)) begins
sendSsePush(p, m) ==
    /\ ppc[p] = "idle"
    /\ mutex = 0
    /\ m \in NextMessages
    /\ mutex' = p
    /\ ppc' = [ppc EXCEPT ![p] = "pushing"]
    /\ pmsg' = [pmsg EXCEPT ![p] = m]
    /\ enq' = IF m = EmptyMsg THEN enq ELSE Append(enq, m)
    /\ nempty' = IF m = EmptyMsg THEN nempty + 1 ELSE nempty
    /\ UNCHANGED <<sse_initialized, active, queue, timer, wpc, cur, popped,
                   closer, peer, probe, wire, headers, writeFailed>>
    /\ UNCHANGED sessionVars
    /\ UNCHANGED metricsVars
    /\ UNCHANGED serverVars

\* sendSse: the push is done and the lock_guard releases mutex_
sendSsePushed(p) ==
    /\ ppc[p] = "pushing"
    /\ queue' = QueuePush(queue, pmsg[p], popped)
    /\ popped' = FALSE
    /\ mutex' = 0
    /\ ppc' = [ppc EXCEPT ![p] = "cancel_one"]
    /\ UNCHANGED <<sse_initialized, active, timer, wpc, cur, pmsg, enq,
                   nempty, closer, peer, probe, wire, headers, writeFailed>>
    /\ UNCHANGED sessionVars
    /\ UNCHANGED metricsVars
    /\ UNCHANGED serverVars

\* sendSse: timer_.cancel_one()
sendSseCancelOne(p) ==
    /\ ppc[p] = "cancel_one"
    /\ timer' = Cancelled(timer)
    /\ ppc' = [ppc EXCEPT ![p] = "idle"]
    /\ UNCHANGED <<sse_initialized, active, queue, mutex, wpc, cur, pmsg,
                   popped, enq, nempty, closer, peer, probe, wire, headers,
                   writeFailed>>
    /\ UNCHANGED sessionVars
    /\ UNCHANGED metricsVars
    /\ UNCHANGED serverVars

\* closeSse: active_ = false
closeSseSetInactive ==
    /\ closer = "idle"
    /\ active' = FALSE
    /\ closer' = "cancel"
    /\ UNCHANGED <<sse_initialized, queue, mutex, timer, wpc, cur, ppc, pmsg,
                   popped, enq, nempty, peer, probe, wire, headers,
                   writeFailed>>
    /\ UNCHANGED sessionVars
    /\ UNCHANGED metricsVars
    /\ UNCHANGED serverVars

\* closeSse: timer_.cancel()
closeSseCancel ==
    /\ closer = "cancel"
    /\ timer' = Cancelled(timer)
    /\ closer' = "done"
    /\ UNCHANGED <<sse_initialized, active, queue, mutex, wpc, cur, ppc, pmsg,
                   popped, enq, nempty, peer, probe, wire, headers,
                   writeFailed>>
    /\ UNCHANGED sessionVars
    /\ UNCHANGED metricsVars
    /\ UNCHANGED serverVars

\* DoSession calls cont->proceed(); proceeding(): active_ = true
proceedingStart ==
    /\ pc = "Continuation"
    /\ wpc = "created"
    /\ active' = TRUE
    /\ wpc' = "queue_empty"
    /\ UNCHANGED <<sse_initialized, queue, mutex, timer, cur, ppc, pmsg,
                   popped, enq, nempty, closer, peer, probe, wire, headers,
                   writeFailed>>
    /\ UNCHANGED sessionVars
    /\ UNCHANGED metricsVars
    /\ UNCHANGED serverVars

\* proceeding(): while(!queue_.empty())
proceedingQueueEmpty ==
    /\ wpc = "queue_empty"
    /\ \E e \in QueueEmpty(queue, InFlight) :
          wpc' = IF e THEN "if_active" ELSE "front"
    /\ UNCHANGED <<sse_initialized, active, queue, mutex, timer, cur, ppc,
                   pmsg, popped, enq, nempty, closer, peer, probe, wire,
                   headers, writeFailed>>
    /\ UNCHANGED sessionVars
    /\ UNCHANGED metricsVars
    /\ UNCHANGED serverVars

NeedsHeaderAlways(initialized) == TRUE

\* send(): if (!sse_initialized_) the response header is written first
NeedsHeader(initialized) == ~initialized

\* proceeding(): send(queue_.front()) is entered
sendFront ==
    /\ wpc = "front"
    /\ cur' \in QueueFront(queue, InFlight)
    /\ wpc' = IF NeedsHeader(sse_initialized) THEN "write_header"
              ELSE "write_chunk"
    /\ UNCHANGED <<sse_initialized, active, queue, mutex, timer, ppc, pmsg,
                   popped, enq, nempty, closer, peer, probe, wire, headers,
                   writeFailed>>
    /\ UNCHANGED sessionVars
    /\ UNCHANGED metricsVars
    /\ UNCHANGED serverVars

\* a write on the stream can fail only once the peer is gone
WriteOutcomes == IF peer = "closed" THEN BOOLEAN ELSE {TRUE}

\* what the completion handler of the probe read does to active_
\* (it only logs: active_ is left as it is and no callback is invoked)
ProbeCompletion(a) == a

ActiveAfterFailedSendKeep(a) == a

\* proceeding(): if (!send(...)) { active_ = false; break; }
ActiveAfterFailedSend(a) == FALSE

\* send(): async_write_header completes; on success sse_initialized_ is set
\* and the probe read is posted, on failure send() returns false and
\* proceeding() sets active_ = false and leaves the inner loop
sendWriteHeader(ok) ==
    /\ wpc = "write_header"
    /\ ok \in WriteOutcomes
    /\ IF ok
       THEN /\ sse_initialized' = TRUE
            /\ headers' = headers + 1
            /\ probe' = "posted"
            /\ wpc' = "write_chunk"
            /\ UNCHANGED <<active, writeFailed>>
       ELSE /\ active' = ActiveAfterFailedSend(active)
            /\ writeFailed' = TRUE
            /\ wpc' = "if_active"
            /\ UNCHANGED <<sse_initialized, headers, probe>>
    /\ UNCHANGED <<queue, mutex, timer, cur, ppc, pmsg, popped, enq, nempty,
                   closer, peer, wire>>
    /\ UNCHANGED sessionVars
    /\ UNCHANGED metricsVars
    /\ UNCHANGED serverVars

\* send(): an empty message is not written; otherwise async_write_stream
\* completes, and on failure send() returns false as above
sendWriteChunk(ok) ==
    /\ wpc = "write_chunk"
    /\ ok \in WriteOutcomes
    /\ IF cur = EmptyMsg
       THEN /\ ok
            /\ wpc' = "pop"
            /\ UNCHANGED <<active, wire, writeFailed>>
       ELSE IF ok
       THEN /\ wire' = Append(wire, cur)
            /\ wpc' = "pop"
            /\ UNCHANGED <<active, writeFailed>>
       ELSE /\ active' = ActiveAfterFailedSend(active)
            /\ writeFailed' = TRUE
            /\ wpc' = "if_active"
            /\ UNCHANGED wire
    /\ UNCHANGED <<sse_initialized, queue, mutex, timer, cur, ppc, pmsg,
                   popped, enq, nempty, closer, peer, probe, headers>>
    /\ UNCHANGED sessionVars
    /\ UNCHANGED metricsVars
    /\ UNCHANGED serverVars

\* proceeding(): queue_.pop()
proceedingPop ==
    /\ wpc = "pop"
    /\ queue' = QueuePop(queue)
    /\ popped' = (popped \/ (queue = <<>> /\ Racing))
    /\ wpc' = "queue_empty"
    /\ UNCHANGED <<sse_initialized, active, mutex, timer, cur, ppc, pmsg,
                   enq, nempty, closer, peer, probe, wire, headers,
                   writeFailed>>
    /\ UNCHANGED sessionVars
    /\ UNCHANGED metricsVars
    /\ UNCHANGED serverVars

\* proceeding(): if (active_)
proceedingIfActive ==
    /\ wpc = "if_active"
    /\ wpc' = IF active THEN "async_wait" ELSE "while_active"
    /\ UNCHANGED <<sse_initialized, active, queue, mutex, timer, cur, ppc,
                   pmsg, popped, enq, nempty, closer, peer, probe, wire,
                   headers, writeFailed>>
    /\ UNCHANGED sessionVars
    /\ UNCHANGED metricsVars
    /\ UNCHANGED serverVars

\* proceeding(): timer_.expires_after(30s); timer_.async_wait(yield[ec])
proceedingAsyncWait ==
    /\ wpc = "async_wait"
    /\ timer' = "armed"
    /\ wpc' = "waiting"
    /\ UNCHANGED <<sse_initialized, active, queue, mutex, cur, ppc, pmsg,
                   popped, enq, nempty, closer, peer, probe, wire, headers,
                   writeFailed>>
    /\ UNCHANGED sessionVars
    /\ UNCHANGED metricsVars
    /\ UNCHANGED serverVars

\* the 30 seconds pass
timerExpires ==
    /\ timer = "armed"
    /\ timer' = "expired"
    /\ UNCHANGED <<sse_initialized, active, queue, mutex, wpc, cur, ppc,
                   pmsg, popped, enq, nempty, closer, peer, probe, wire,
                   headers, writeFailed>>
    /\ UNCHANGED sessionVars
    /\ UNCHANGED metricsVars
    /\ UNCHANGED serverVars

\* proceeding(): the wait completes, with no error or operation_aborted
proceedingWake ==
    /\ wpc = "waiting"
    /\ timer \in {"expired", "cancelled"}
    /\ timer' = "idle"
    /\ wpc' = "while_active"
    /\ UNCHANGED <<sse_initialized, active, queue, mutex, cur, ppc, pmsg,
                   popped, enq, nempty, closer, peer, probe, wire, headers,
                   writeFailed>>
    /\ UNCHANGED sessionVars
    /\ UNCHANGED metricsVars
    /\ UNCHANGED serverVars

\* proceeding(): } while (active_); return {};
proceedingWhileActive ==
    /\ wpc = "while_active"
    /\ wpc' = IF active THEN "queue_empty" ELSE "returned"
    /\ UNCHANGED <<sse_initialized, active, queue, mutex, timer, cur, ppc,
                   pmsg, popped, enq, nempty, closer, peer, probe, wire,
                   headers, writeFailed>>
    /\ UNCHANGED sessionVars
    /\ UNCHANGED metricsVars
    /\ UNCHANGED serverVars

\* proceed() returns to DoSession, which sets close and ends the loop body
proceedReturns ==
    /\ pc = "Continuation"
    /\ wpc = "returned"
    /\ wpc' = "done"
    /\ close' = CloseAfterContinuation(close)
    /\ pc' = LoopNext(close')
    /\ request' = NoRequest
    /\ response' = NoResponse
    /\ invoked' = {}
    /\ handlerResult' = NoOutcome
    /\ UNCHANGED <<cfg, routes, reply, lastWrite, nreq, written>>
    /\ UNCHANGED <<sse_initialized, active, queue, mutex, timer, cur, ppc,
                   pmsg, popped, enq, nempty, closer, peer, probe, wire,
                   headers, writeFailed>>
    /\ UNCHANGED metricsVars
    /\ UNCHANGED serverVars

\* the client closes its end of the connection
peerCloses ==
    /\ peer = "open"
    /\ peer' = "closed"
    /\ UNCHANGED <<sse_initialized, active, queue, mutex, timer, wpc, cur,
                   ppc, pmsg, popped, enq, nempty, closer, probe, wire,
                   headers, writeFailed>>
    /\ UNCHANGED sessionVars
    /\ UNCHANGED metricsVars
    /\ UNCHANGED serverVars

\* the probe read posted by send() completes because the peer closed; its
\* completion handler runs
probeReadCompletes ==
    /\ peer = "closed"
    /\ probe = "posted"
    /\ probe' = "completed"
    /\ active' = ProbeCompletion(active)
    /\ UNCHANGED <<sse_initialized, queue, mutex, timer, wpc, cur, ppc, pmsg,
                   popped, enq, nempty, closer, peer, wire, headers,
                   writeFailed>>
    /\ UNCHANGED sessionVars
    /\ UNCHANGED metricsVars
    /\ UNCHANGED serverVars


---------------------------------------------------------------------------
(* The metrics registry: Metrics::AddMetric, clone, lookup, generate       *)

MaxMetrics == 3

\* metric names, label names and label values, as character sequences
MetricNames == {<<"a">>, <<"a", "b">>}

LabelX == [first |-> <<"x">>, second |-> <<"1">>]

LabelY == [first |-> <<"y">>, second |-> <<"1">>]

\* the label vectors callers pass (labels_t)
LabelVectors == {<<>>, <<LabelX, LabelY>>, <<LabelY, LabelX>>}

\* DataType::Type, by typeName(); "none" is the empty optional
AddTypes == {"counter", "info"}

LookupTypes == {"none", "counter", "gauge", "info"}

Helps == {<<"a">>}

Units == {<<>>, <<"b">>}

NoResult ==
    [op |-> "none", name |-> <<>>, labels |-> <<>>, type |-> "none",
     added |-> FALSE, error |-> "none", ret |-> <<>>]

\* the registry before any metric is added
RegistryIdle ==
    /\ metrics_ = <<>>
    /\ mres = NoResult
    /\ out = <<>>

\* std::sort of the labels by label name (makeLabels)
RECURSIVE InsertLabel(_, _)
InsertLabel(l, sorted) ==
    IF sorted = <<>> THEN <<l>>
    ELSE IF StrLess(l.first, Head(sorted).first) THEN <<l>> \o sorted
    ELSE <<Head(sorted)>> \o InsertLabel(l, Tail(sorted))

RECURSIVE makeLabelsSort(_)
makeLabelsSort(source) ==
    IF source = <<>> THEN <<>>
    ELSE InsertLabel(source[Len(source)],
                     makeLabelsSort(SubSeq(source, 1, Len(source) - 1)))

makeLabelsUnsorted(source) == source

makeLabels(source) == makeLabelsSort(source)

\* label.first + "=\"" + label.second + "\"", joined with ","
RECURSIVE LabelList(_)
LabelList(labels) ==
    IF labels = <<>> THEN <<>>
    ELSE Head(labels).first \o <<"=", "\"">> \o Head(labels).second
         \o <<"\"">>
         \o (IF Len(labels) > 1 THEN <<",">> ELSE <<>>)
         \o LabelList(Tail(labels))

\* the marker that puts the keys of Info metrics first
InfoMarkerNone(first) == <<>>

InfoMarker(first) == IF first THEN <<"#">> ELSE <<>>

makeNameWithSuffixAndLabels(name, suffix, labels, first) ==
    InfoMarker(first) \o name
    \o (IF suffix # <<>> THEN <<"_">> \o suffix ELSE <<>>)
    \o (IF labels = <<>> THEN <<>>
        ELSE <<"{">> \o LabelList(labels) \o <<"}">>)

makeKey(name, labels, type) ==
    makeNameWithSuffixAndLabels(name, <<>>, labels, type = "info")

\* the DataType constructor
DataType(type, name, help, unit, labels) ==
    [type |-> type, name |-> name, help |-> help, unit |-> unit,
     labels |-> makeLabels(labels)]

\* metrics_.emplace(key, std::move(c))
emplace(m, key, c) ==
    IF key \in DOMAIN m THEN [map |-> m, added |-> FALSE]
    ELSE [map |-> [k \in DOMAIN m \cup {key} |->
                      IF k = key THEN c ELSE m[k]],
          added |-> TRUE]

\* AddMetric: the result of emplace is not looked at
AddMetric(type, name, help, unit, labels) ==
    /\ LET c == DataType(type, name, help, unit, labels)
           key == makeKey(c.name, c.labels, c.type)
           e == emplace(metrics_, key, c)
       IN  /\ Cardinality(DOMAIN e.map) <= MaxMetrics
           /\ metrics_' = e.map
           /\ mres' = [op |-> "AddMetric", name |-> name, labels |-> labels,
                       type |-> type, added |-> e.added, error |-> "none",
                       ret |-> key]
    /\ out' = <<>>
    /\ UNCHANGED sessionVars
    /\ UNCHANGED sseVars
    /\ UNCHANGED instrumentVars
    /\ UNCHANGED serverVars

\* clone: throws std::invalid_argument when the key is taken
clone(source, labels) ==
    /\ source \in DOMAIN metrics_
    /\ LET src == metrics_[source]
           c == DataType(src.type, src.name, src.help, src.unit, labels)
           key == makeKey(c.name, c.labels, c.type)
           e == emplace(metrics_, key, c)
       IN  /\ Cardinality(DOMAIN e.map) <= MaxMetrics
           /\ metrics_' = e.map
           /\ mres' = [op |-> "clone", name |-> src.name, labels |-> labels,
                       type |-> src.type, added |-> e.added,
                       error |-> IF e.added THEN "none"
                                 ELSE "invalid_argument",
                       ret |-> IF e.added THEN key ELSE <<>>]
    /\ out' = <<>>
    /\ UNCHANGED sessionVars
    /\ UNCHANGED sseVars
    /\ UNCHANGED instrumentVars
    /\ UNCHANGED serverVars

\* lookup: the key is made from the sorted labels and the type asked for
lookup(name, labels, type) ==
    /\ LET my_labels == makeLabels(labels)
           key == makeKey(name, my_labels, type)
           found == IF key \notin DOMAIN metrics_ THEN <<>>
                    ELSE IF type # "none" /\ type # metrics_[key].type
                    THEN <<>>
                    ELSE key
       IN  mres' = [op |-> "lookup", name |-> name, labels |-> labels,
                    type |-> type, added |-> FALSE, error |-> "none",
                    ret |-> found]
    /\ out' = <<>>
    /\ UNCHANGED metrics_
    /\ UNCHANGED sessionVars
    /\ UNCHANGED sseVars
    /\ UNCHANGED instrumentVars
    /\ UNCHANGED serverVars

\* the keys of a std::map in iteration order
RECURSIVE MapOrder(_)
MapOrder(keys) ==
    IF keys = {} THEN <<>>
    ELSE LET k == FirstKey(keys) IN <<k>> \o MapOrder(keys \ {k})

\* the suffix render() adds to the name of a sample
SampleSuffix(type) ==
    CASE type = "counter" -> <<"total">>
      [] type = "info" -> <<"info">>
      [] OTHER -> <<>>

\* the lines generate writes for one metric (each line keeps the key of the
\* metric it was written for): the family header when the name
\* differs from current_family, then what the metric renders
MetricLines(key, m, current_family) ==
    (IF current_family # m.name
     THEN (IF m.help # <<>>
           THEN <<[kind |-> "HELP", key |-> key, name |-> m.name,
                   text |-> m.help]>>
           ELSE <<>>)
          \o <<[kind |-> "TYPE", key |-> key, name |-> m.name,
                text |-> <<m.type>>]>>
          \o (IF m.unit # <<>>
              THEN <<[kind |-> "UNIT", key |-> key, name |-> m.name,
                      text |-> m.unit]>>
              ELSE <<>>)
     ELSE <<>>)
    \o <<[kind |-> "sample", key |-> key, name |-> m.name,
          text |-> makeNameWithSuffixAndLabels(m.name, SampleSuffix(m.type),
                                               m.labels, FALSE)]>>

RECURSIVE GenerateLines(_, _, _)
GenerateLines(m, order, current_family) ==
    IF order = <<>> THEN <<>>
    ELSE MetricLines(Head(order), m[Head(order)], current_family)
         \o GenerateLines(m, Tail(order), m[Head(order)].name)

\* generate: the metrics in map order, a family header whenever the name
\* changes
generate ==
    /\ out' = GenerateLines(metrics_, MapOrder(DOMAIN metrics_), <<>>)
    /\ mres' = [NoResult EXCEPT !.op = "generate"]
    /\ UNCHANGED metrics_
    /\ UNCHANGED sessionVars
    /\ UNCHANGED sseVars
    /\ UNCHANGED instrumentVars
    /\ UNCHANGED serverVars

---------------------------------------------------------------------------
(* The instruments: Counter, Histogram, Summary                            *)

NumThreads == 2
MaxInc == 2
MaxIncs == 4
MaxValue == 4
MaxObservations == 3
MaxIndeterminate == 1
MaxSamples == 2

Threads == 1..NumThreads

\* the values given to Counter::inc (value >= 0 is asserted)
IncValues == 0..MaxInc

\* the values given to observe
ObserveValues == 0..MaxValue

\* what a member without an initialiser may hold after construction
Indeterminate == 0..MaxIndeterminate

\* Histogram::bucket_bounds_
BucketBounds == <<1, 3>>

RECURSIVE SumSeq(_)
SumSeq(s) == IF s = <<>> THEN 0 ELSE Head(s) + SumSeq(Tail(s))

\* Counter: value_{T{}}
CounterIdle ==
    /\ value_ = 0
    /\ incd = <<>>
    /\ tpc = [t \in Threads |-> "idle"]
    /\ lastRead = 0

FetchAddStore(old, v) == v

\* std::atomic<T>::fetch_add
FetchAdd(old, v) == old + v

\* Counter::inc up to and including value_.fetch_add(value)
inc(t, v) ==
    /\ tpc[t] = "idle"
    /\ Len(incd) < MaxIncs
    /\ value_' = FetchAdd(value_, v)
    /\ incd' = Append(incd, v)
    /\ tpc' = [tpc EXCEPT ![t] = "touch"]
    /\ UNCHANGED lastRead
    /\ UNCHANGED <<sessionVars, sseVars, registryVars, serverVars>>
    /\ UNCHANGED <<histogramVars, summaryVars, statesetVars, gaugeVars>>

\* the rest of Counter::inc: touch() stores the time of the update
touch(t) ==
    /\ tpc[t] = "touch"
    /\ tpc' = [tpc EXCEPT ![t] = "idle"]
    /\ UNCHANGED <<value_, incd, lastRead>>
    /\ UNCHANGED <<sessionVars, sseVars, registryVars, serverVars>>
    /\ UNCHANGED <<histogramVars, summaryVars, statesetVars, gaugeVars>>

\* Counter::value, called by a reader
value ==
    /\ lastRead' = value_
    /\ UNCHANGED <<value_, incd, tpc>>
    /\ UNCHANGED <<sessionVars, sseVars, registryVars, serverVars>>
    /\ UNCHANGED <<histogramVars, summaryVars, statesetVars, gaugeVars>>

\* no Histogram constructed
HistogramIdle ==
    /\ sum_ = 0
    /\ count_ = 0
    /\ buckets_ = <<>>
    /\ hobserved = <<>>

\* Histogram::Histogram: buckets_(bucket_bounds_.size() + 1, 0); sum_ and
\* count_ have no initialiser
HistogramConstructed ==
    /\ sum_ \in Indeterminate
    /\ count_ \in Indeterminate
    /\ buckets_ = [i \in 1..(Len(BucketBounds) + 1) |-> 0]
    /\ hobserved = <<>>

\* the loop of Histogram::observe from index i on: the first bucket whose
\* bound is not below the value, else the last (+Inf) bucket
RECURSIVE FindBucket(_, _)
FindBucket(v, i) ==
    IF i > Len(BucketBounds) THEN Len(BucketBounds) + 1
    ELSE IF v <= BucketBounds[i] THEN i
    ELSE FindBucket(v, i + 1)

\* Histogram::observe (under mutex_)
Histogram_observe(v) ==
    /\ Len(hobserved) < MaxObservations
    /\ sum_' = sum_ + v
    /\ count_' = count_ + 1
    /\ buckets_' = [buckets_ EXCEPT ![FindBucket(v, 1)] = @ + 1]
    /\ hobserved' = Append(hobserved, v)
    /\ UNCHANGED <<sessionVars, sseVars, registryVars, serverVars>>
    /\ UNCHANGED <<counterVars, summaryVars, statesetVars, gaugeVars>>

\* Summary::quantiles_, in tenths (0.1, 0.5, 0.9)
Quantiles == <<1, 5, 9>>

\* numbers with a fraction are kept as integers, in tenths
Scale == 10

\* calculateQuantiles not called
NoQuantiles == [called |-> FALSE, samples |-> <<>>, values |-> <<>>]

\* Summary: sum_ = 0, count_ = 0, observations_(max_samples)
SummaryIdle ==
    /\ summary_sum_ = 0
    /\ summary_count_ = 0
    /\ observations_ = <<>>
    /\ sobserved = <<>>
    /\ qres = NoQuantiles

push_back_keep(buf, v, capacity) ==
    IF Len(buf) < capacity THEN Append(buf, v) ELSE buf

\* boost::circular_buffer::push_back: a full buffer overwrites its oldest
\* element
push_back(buf, v, capacity) ==
    IF capacity = 0 THEN buf
    ELSE IF Len(buf) < capacity THEN Append(buf, v)
    ELSE Append(Tail(buf), v)

\* Summary::observe (under mutex_)
Summary_observe(v) ==
    /\ Len(sobserved) < MaxObservations
    /\ summary_sum_' = summary_sum_ + v
    /\ summary_count_' = summary_count_ + 1
    /\ observations_' = push_back(observations_, v, MaxSamples)
    /\ sobserved' = Append(sobserved, v)
    /\ UNCHANGED qres
    /\ UNCHANGED <<sessionVars, sseVars, registryVars, serverVars>>
    /\ UNCHANGED <<counterVars, histogramVars, statesetVars, gaugeVars>>

\* std::sort of the samples
RECURSIVE InsertSample(_, _)
InsertSample(v, sorted) ==
    IF sorted = <<>> THEN <<v>>
    ELSE IF v < Head(sorted) THEN <<v>> \o sorted
    ELSE <<Head(sorted)>> \o InsertSample(v, Tail(sorted))

RECURSIVE SortSamples(_)
SortSamples(s) ==
    IF s = <<>> THEN <<>> ELSE InsertSample(Head(s), SortSamples(Tail(s)))

Max0(x) == IF x < 0 THEN 0 ELSE x

\* double fraction = pos - index (in tenths)
Fraction(pos, index) == pos - Scale * index

\* one pass of the loop of calculateQuantiles for the quantile q (tenths)
\* over sorted_data (indexed from 1 here); the result is in tenths
Quantile(sorted_data, q) ==
    LET n == Len(sorted_data)
        pos == q * n - (Scale \div 2)
        index == Max0(pos \div Scale)
        fraction == Fraction(pos, index)
    IN  IF index >= n - 1 THEN Scale * sorted_data[n]
        ELSE Scale * sorted_data[index + 1]
               + fraction * (sorted_data[index + 2] - sorted_data[index + 1])

\* Summary::calculateQuantiles
calculateQuantiles ==
    /\ qres' = [called |-> TRUE, samples |-> observations_,
                values |->
                  IF observations_ = <<>>
                  THEN [i \in DOMAIN Quantiles |-> 0]
                  ELSE [i \in DOMAIN Quantiles |->
                          Quantile(SortSamples(observations_), Quantiles[i])]]
    /\ UNCHANGED <<summary_sum_, summary_count_, observations_, sobserved>>
    /\ UNCHANGED <<sessionVars, sseVars, registryVars, serverVars>>
    /\ UNCHANGED <<counterVars, histogramVars, statesetVars, gaugeVars>>

\* Stateset<MaxCapacity> with the states "a", "b", "x"
MaxCapacity == 4

\* Stateset::states_
States == <<<<"a">>, <<"b">>, <<"x">>>>

\* the names and the indexes callers pass
StateArgs == {<<"a">>, <<"b">>, <<"x">>, <<"y">>}

IndexArgs == 0..MaxCapacity

NoStatesetResult ==
    [op |-> "none", by |-> "index", state |-> <<>>, index |-> 0,
     active |-> FALSE, error |-> "none",
     ret |-> FALSE]

\* state_values_{} : every slot of the array is 0
StatesetIdle ==
    /\ state_values_ = [i \in 0..(MaxCapacity - 1) |-> 0]
    /\ sres = NoStatesetResult

\* state_index_.find(state): the index of the name, or -1 for end()
state_index_find(state) ==
    IF \E i \in DOMAIN States : States[i] = state
    THEN (CHOOSE i \in DOMAIN States : States[i] = state) - 1
    ELSE -1

InvalidIndexCapacity(index) == index >= MaxCapacity

\* index >= states_.size()
InvalidIndex(index) == index >= Len(States)

StatesetFrame ==
    /\ UNCHANGED <<sessionVars, sseVars, registryVars, serverVars>>
    /\ UNCHANGED <<counterVars, histogramVars, summaryVars, gaugeVars>>

\* Stateset::setState(const std::string&, bool)
setStateByName(state, on) ==
    /\ LET it == state_index_find(state)
       IN  IF it # -1
           THEN /\ state_values_' =
                     [state_values_ EXCEPT ![it] = IF on THEN 1 ELSE 0]
                /\ sres' = [op |-> "setState", by |-> "name", state |-> state,
                            index |-> 0,
                            active |-> on, error |-> "none",
                            ret |-> FALSE]
           ELSE /\ sres' = [op |-> "setState", by |-> "name", state |-> state,
                            index |-> 0,
                            active |-> on, error |-> "out_of_range",
                            ret |-> FALSE]
                /\ UNCHANGED state_values_
    /\ StatesetFrame

\* Stateset::setState(size_t, bool)
setState(index, on) ==
    /\ IF InvalidIndex(index)
       THEN /\ sres' = [op |-> "setState", by |-> "index", state |-> <<>>,
                        index |-> index, active |-> on,
                        error |-> "out_of_range", ret |-> FALSE]
            /\ UNCHANGED state_values_
       ELSE /\ state_values_' =
                 [state_values_ EXCEPT ![index] = IF on THEN 1 ELSE 0]
            /\ sres' = [op |-> "setState", by |-> "index", state |-> <<>>,
                        index |-> index, active |-> on,
                        error |-> "none", ret |-> FALSE]
    /\ StatesetFrame

\* Stateset::setExclusiveState(size_t)
setExclusiveState(index) ==
    /\ IF InvalidIndex(index)
       THEN /\ sres' = [op |-> "setExclusiveState", by |-> "index", state |-> <<>>,
                        index |-> index,
                        active |-> FALSE, error |-> "out_of_range",
                        ret |-> FALSE]
            /\ UNCHANGED state_values_
       ELSE /\ state_values_' =
                 [i \in DOMAIN state_values_ |->
                    IF i < Len(States)
                    THEN (IF i = index THEN 1 ELSE 0)
                    ELSE state_values_[i]]
            /\ sres' = [op |-> "setExclusiveState", by |-> "index", state |-> <<>>,
                        index |-> index,
                        active |-> FALSE, error |-> "none", ret |-> FALSE]
    /\ StatesetFrame

\* Stateset::getState(const std::string&)
getStateByName(state) ==
    /\ LET it == state_index_find(state)
       IN  sres' = [op |-> "getState", by |-> "name", state |-> state,
                            index |-> 0, active |-> FALSE,
                    error |-> IF it # -1 THEN "none" ELSE "out_of_range",
                    ret |-> IF it # -1 THEN state_values_[it] = 1 ELSE FALSE]
    /\ UNCHANGED state_values_
    /\ StatesetFrame

\* Stateset::getState(size_t)
getState(index) ==
    /\ sres' = [op |-> "getState", by |-> "index", state |-> <<>>,
                        index |-> index, active |-> FALSE,
                error |-> IF InvalidIndex(index) THEN "out_of_range"
                          ELSE "none",
                ret |-> IF InvalidIndex(index) THEN FALSE
                        ELSE state_values_[index] = 1]
    /\ UNCHANGED state_values_
    /\ StatesetFrame

NumGuards == 3
MaxScopes == 3

\* the Scoped objects of the program (variables and temporaries)
Guards == 1..NumGuards

\* a guard that is not constructed (or is destroyed)
NoGuard == [live |-> FALSE, metric_ |-> FALSE]

\* Gauge: value_{T{}}; no guard exists
GaugeIdle ==
    /\ gauge_value_ = 0
    /\ scoped = [g \in Guards |-> NoGuard]
    /\ nscoped = 0

GaugeFrame ==
    /\ UNCHANGED <<sessionVars, sseVars, registryVars, serverVars>>
    /\ UNCHANGED <<counterVars, histogramVars, summaryVars, statesetVars>>

\* Scoped() = default : metric_{} is nullptr
ScopedDefault(g) ==
    /\ ~scoped[g].live
    /\ scoped' = [scoped EXCEPT ![g] = [live |-> TRUE, metric_ |-> FALSE]]
    /\ UNCHANGED <<gauge_value_, nscoped>>
    /\ GaugeFrame

\* Gauge::scoped(): Scoped(T * metric) calls metric->inc()
ScopedAcquire(g) ==
    /\ ~scoped[g].live
    /\ nscoped < MaxScopes
    /\ scoped' = [scoped EXCEPT ![g] = [live |-> TRUE, metric_ |-> TRUE]]
    /\ gauge_value_' = gauge_value_ + 1
    /\ nscoped' = nscoped + 1
    /\ GaugeFrame

\* Scoped(Scoped&& v): takes v.metric_ and sets it to nullptr
ScopedMove(g, v) ==
    /\ g # v
    /\ ~scoped[g].live
    /\ scoped[v].live
    /\ scoped' = [scoped EXCEPT
                    ![g] = [live |-> TRUE, metric_ |-> scoped[v].metric_],
                    ![v] = [live |-> TRUE, metric_ |-> FALSE]]
    /\ UNCHANGED <<gauge_value_, nscoped>>
    /\ GaugeFrame

\* Scoped::operator=(Scoped&& v): metric_ = v.metric_; v.metric_ = nullptr
ScopedMoveAssign(g, v) ==
    /\ g # v
    /\ scoped[g].live
    /\ scoped[v].live
    /\ scoped' = [scoped EXCEPT ![g].metric_ = scoped[v].metric_,
                                ![v].metric_ = FALSE]
    /\ UNCHANGED <<gauge_value_, nscoped>>
    /\ GaugeFrame

\* ~Scoped(): metric_->dec() if metric_ is set
ScopedDestroy(g) ==
    /\ scoped[g].live
    /\ gauge_value_' =
         IF scoped[g].metric_ THEN gauge_value_ - 1 ELSE gauge_value_
    /\ scoped' = [scoped EXCEPT ![g] = NoGuard]
    /\ UNCHANGED nscoped
    /\ GaugeFrame

\* no metric registered, no instrument used
MetricsIdle ==
    /\ RegistryIdle
    /\ CounterIdle
    /\ HistogramIdle
    /\ SummaryIdle
    /\ StatesetIdle
    /\ GaugeIdle

---------------------------------------------------------------------------
(* The reactor and its threads: HttpServer::start, run, stop               *)

NumWorkers == 2
MaxTaskSteps == 4

\* sockets a listener accepts
MaxAccepts == 2

\* calls of addRoute and dispatched requests
MaxCalls == 4

\* ScopedTimer objects, and timings started
NumTimers == 3

MaxTimings == 2

\* the worker threads (config_.num_http_threads of them)
Workers == 1..NumWorkers

\* no endpoint is listening
ListenerIdle ==
    /\ lpc = "idle"
    /\ errorCnt = 0
    /\ acceptLog = <<0>>
    /\ sessions = <<>>

NoCall == [op |-> "none", route |-> <<>>, method |-> "", n |-> 0]

\* YahatInstanceMetrics with no route counters
RequestsIdle ==
    /\ http_requests_ = <<>>
    /\ objects = <<>>
    /\ hres = NoCall

\* the ScopedTimer objects of the model
Timers == 1..NumTimers

\* a ScopedTimer that is not constructed (or is destroyed); `of` is the
\* timing whose metric_ and start_time_ the object carries, `holds` the
\* timing the object is the holder of
NoTimer == [live |-> FALSE, metric_ |-> FALSE, of |-> 0, holds |-> 0]

\* no ScopedTimer exists
TimersIdle ==
    /\ timers = [t \in Timers |-> NoTimer]
    /\ started = <<>>
    /\ tobserved = <<>>

\* a server that is not started
ReactorIdle ==
    /\ ListenerIdle
    /\ RequestsIdle
    /\ TimersIdle
    /\ ctx_stopped = FALSE
    /\ workers_ = [w \in Workers |-> "unstarted"]
    /\ tasksteps = 0
    /\ stoppc = "idle"
    /\ joined = 0
    /\ promise_ = FALSE
    /\ runpc = "idle"

\* after run() has called start(): startWorkers has created the threads,
\* each about to call ctx_.run(), and run() waits in future.get()
WorkersStarted ==
    /\ ctx_stopped = FALSE
    /\ workers_ = [w \in Workers |-> "run"]
    /\ tasksteps = 0
    /\ stoppc = "idle"
    /\ joined = 0
    /\ promise_ = FALSE
    /\ runpc = "waiting"

ReactorStarted ==
    WorkersStarted /\ ListenerIdle /\ RequestsIdle /\ TimersIdle

ReactorFrame ==
    /\ UNCHANGED listenerVars
    /\ UNCHANGED requestVars
    /\ UNCHANGED timerVars
    /\ UNCHANGED sessionVars
    /\ UNCHANGED sseVars
    /\ UNCHANGED metricsVars

DispatchAlways(stopped) == TRUE

\* io_context::run hands out handlers only while the context is not stopped
MayDispatch(stopped) == ~stopped

\* a worker inside ctx_.run() takes a ready handler (a step of an accept
\* loop or of a session task)
workerDispatch(w) ==
    /\ workers_[w] = "run"
    /\ MayDispatch(ctx_stopped)
    /\ tasksteps < MaxTaskSteps
    /\ workers_' = [workers_ EXCEPT ![w] = "handler"]
    /\ UNCHANGED <<ctx_stopped, tasksteps, stoppc, joined, promise_, runpc>>
    /\ ReactorFrame

\* the handler returns to ctx_.run(): the task has made a step
workerHandlerDone(w) ==
    /\ workers_[w] = "handler"
    /\ workers_' = [workers_ EXCEPT ![w] = "run"]
    /\ tasksteps' = tasksteps + 1
    /\ UNCHANGED <<ctx_stopped, stoppc, joined, promise_, runpc>>
    /\ ReactorFrame

\* the handler throws: ctx_.run() throws, the worker logs it and ends
workerException(w) ==
    /\ workers_[w] = "handler"
    /\ workers_' = [workers_ EXCEPT ![w] = "done"]
    /\ UNCHANGED <<ctx_stopped, tasksteps, stoppc, joined, promise_, runpc>>
    /\ ReactorFrame

\* ctx_.run() returns because the context is stopped; the thread ends
workerRunReturns(w) ==
    /\ workers_[w] = "run"
    /\ ctx_stopped
    /\ workers_' = [workers_ EXCEPT ![w] = "done"]
    /\ UNCHANGED <<ctx_stopped, tasksteps, stoppc, joined, promise_, runpc>>
    /\ ReactorFrame

\* HttpServer::stop: ctx_.stop()
stopCtx ==
    /\ stoppc = "idle"
    /\ runpc = "waiting"
    /\ ctx_stopped' = TRUE
    /\ stoppc' = "join"
    /\ UNCHANGED <<workers_, tasksteps, joined, promise_, runpc>>
    /\ ReactorFrame

\* HttpServer::stop: worker.join() for the next worker returns once that
\* thread has ended
stopJoin ==
    /\ stoppc = "join"
    /\ joined < NumWorkers
    /\ workers_[joined + 1] = "done"
    /\ joined' = joined + 1
    /\ UNCHANGED <<ctx_stopped, workers_, tasksteps, stoppc, promise_, runpc>>
    /\ ReactorFrame

\* HttpServer::stop: promise_.set_value() after the last join
stopSetValue ==
    /\ stoppc = "join"
    /\ joined = NumWorkers
    /\ promise_' = TRUE
    /\ stoppc' = "done"
    /\ UNCHANGED <<ctx_stopped, workers_, tasksteps, joined, runpc>>
    /\ ReactorFrame

\* HttpServer::run: future.get() returns when the promise has its value
runReturns ==
    /\ runpc = "waiting"
    /\ promise_
    /\ runpc' = "returned"
    /\ UNCHANGED <<ctx_stopped, workers_, tasksteps, stoppc, joined, promise_>>
    /\ ReactorFrame

---------------------------------------------------------------------------
(* The accept loop of one endpoint (the coroutine spawned by start())      *)

\* const size_t maxErrors
maxErrors == 64

\* the frame of the steps of the accept coroutine
ListenerFrame ==
    /\ UNCHANGED <<ctx_stopped, workers_, tasksteps, stoppc, joined, promise_,
                   runpc>>
    /\ UNCHANGED requestVars
    /\ UNCHANGED timerVars
    /\ UNCHANGED sessionVars
    /\ UNCHANGED sseVars
    /\ UNCHANGED metricsVars

\* failed accepts since the last successful one
ConsecutiveErrors == acceptLog[Len(acceptLog)]

\* sockets accepted so far
Accepted == Len(acceptLog) - 1

\* a session task that has been spawned: DoSession is in its request loop
\* and has taken n requests; last is what the latest one did
NewTask == [state |-> "running", n |-> 0, last |-> "none"]

ErrorCntAfterAcceptKeep(n) == n

\* errorCnt = 0 after an accept without error
ErrorCntAfterAccept(n) == 0

\* for(;!ctx_.stopped() && errorCnt < maxErrors;): the loop condition
acceptLoopTest ==
    /\ lpc = "test"
    /\ lpc' = IF ~ctx_stopped /\ errorCnt < maxErrors
              THEN "accepting"
              ELSE "ended"
    /\ UNCHANGED <<errorCnt, acceptLog, sessions>>
    /\ ListenerFrame

\* acceptor.async_accept completes with an error: ++errorCnt; continue
acceptFails ==
    /\ lpc = "accepting"
    /\ MayDispatch(ctx_stopped)
    /\ errorCnt' = errorCnt + 1
    /\ acceptLog' = [acceptLog EXCEPT ![Len(acceptLog)] = @ + 1]
    /\ lpc' = "test"
    /\ UNCHANGED sessions
    /\ ListenerFrame

\* acceptor.async_accept completes with a socket: errorCnt = 0 and
\* boost::asio::spawn of DoSession on that socket
acceptSucceeds ==
    /\ lpc = "accepting"
    /\ MayDispatch(ctx_stopped)
    /\ Accepted < MaxAccepts
    /\ errorCnt' = ErrorCntAfterAccept(errorCnt)
    /\ acceptLog' = Append(acceptLog, 0)
    /\ sessions' = Append(sessions, NewTask)
    /\ lpc' = "test"
    /\ ListenerFrame

---------------------------------------------------------------------------
(* YahatInstanceMetrics: the request counters of the routes                *)

\* the methods toString(Request::Type) yields
RequestMethods == {"GET", "PUT", "PATCH", "POST", "DELETE", "OPTIONS"}

\* addHttpRequests' all_methods; "O" is the key of the counter for any
\* other method
all_methods == <<"GET", "PUT", "POST", "PATCH", "DELETE", "OPTIONS", "O">>

\* the characters of a method name
MethodChars(method) ==
    CASE method = "GET" -> <<"G", "E", "T">>
      [] method = "PUT" -> <<"P", "U", "T">>
      [] method = "POST" -> <<"P", "O", "S", "T">>
      [] method = "PATCH" -> <<"P", "A", "T", "C", "H">>
      [] method = "DELETE" -> <<"D", "E", "L", "E", "T", "E">>
      [] method = "OPTIONS" -> <<"O", "P", "T", "I", "O", "N", "S">>
      [] method = "O" -> <<"O">>

\* format("{}{}", method, target)
RequestKey(method, target) == MethodChars(method) \o target

\* format("O{}", route)
DefaultKey(route) == <<"O">> \o route

\* the name, help and unit addHttpRequests passes to AddCounter
RequestsName ==
    <<"y", "a", "h", "a", "t", "_", "h", "t", "t", "p", "_",
      "r", "e", "q", "u", "e", "s", "t", "s">>

RequestsHelp == <<"N", "u", "m", "b", "e", "r">>

RequestsUnit == <<"c", "o", "u", "n", "t">>

\* {{"route", string(target)}, {"method", string{method}}}
RequestLabels(target, method) ==
    <<[first |-> <<"r", "o", "u", "t", "e">>, second |-> target],
      [first |-> <<"m", "e", "t", "h", "o", "d">>,
       second |-> MethodChars(method)]>>

\* whether the object a pointer refers to still exists after AddMetric has
\* returned: the unique_ptr that emplace did not take deletes it
AliveAfterEmplace(added) == added

\* AddCounter -> AddMetric<Counter>: make_unique, ptr = c.get(), emplace
\* under the key, return ptr. st.m is metrics_, st.h the Counter objects by
\* address (the pointer is the index)
AddCounter(st, name, help, unit, labels) ==
    LET ptr == Len(st.h) + 1
        c == [id |-> ptr] @@ DataType("counter", name, help, unit, labels)
        key == makeKey(c.name, c.labels, c.type)
        e == emplace(st.m, key, c)
    IN  [m |-> e.map,
         h |-> Append(st.h, [alive |-> AliveAfterEmplace(e.added),
                             value |-> 0]),
         r |-> st.r,
         ptr |-> ptr]

\* map[key] = val
MapPut(f, key, val) ==
    [k \in DOMAIN f \cup {key} |-> IF k = key THEN val ELSE f[k]]

\* the lambda `add` of addHttpRequests: one AddCounter per method of range
RECURSIVE add(_, _, _)
add(st, range, target) ==
    IF range = <<>> THEN st
    ELSE LET method == Head(range)
             key == RequestKey(method, target)
             a == AddCounter(st, RequestsName, RequestsHelp, RequestsUnit,
                             RequestLabels(target, method))
         IN  add([m |-> a.m, h |-> a.h, r |-> MapPut(a.r, key, a.ptr)],
                 Tail(range), target)

\* YahatInstanceMetrics::addHttpRequests(target, methods)
addHttpRequests(st, target, methods) ==
    IF methods # <<>> THEN add(st, methods, target)
    ELSE add(st, all_methods, target)

\* the method lists given to addRoute
MethodLists == {<<>>, <<"GET">>, <<"GET", "O">>}

RequestRoutes == {<<"/">>, <<"/", "a">>}

RequestTargets == {<<"/">>, <<"/", "a">>, <<"/", "/", "a">>}

RequestsFrame ==
    /\ UNCHANGED <<ctx_stopped, workers_, tasksteps, stoppc, joined, promise_,
                   runpc>>
    /\ UNCHANGED listenerVars
    /\ UNCHANGED timerVars
    /\ UNCHANGED sseVars
    /\ UNCHANGED instrumentVars
    /\ UNCHANGED <<mres, out>>
    /\ UNCHANGED <<cfg, pc, close, request, response, reply, invoked,
                   handlerResult, lastWrite, nreq, written>>

\* HttpServer::addRoute_(target, handler, methods) with metrics enabled
addRoute_(target, handler, methods) ==
    /\ Len(target) # 0
    /\ hres.n < MaxCalls
    /\ LET st == addHttpRequests([m |-> metrics_, h |-> objects,
                                  r |-> http_requests_], target, methods)
       IN  /\ metrics_' = st.m
           /\ objects' = st.h
           /\ http_requests_' = st.r
    /\ routes' = MapPut(routes, target, handler)
    /\ hres' = [op |-> "addRoute", route |-> target, method |-> "",
                n |-> hres.n + 1]
    /\ RequestsFrame

\* it->second->inc() on a Counter that exists
CounterInc(h, ptr) == [h EXCEPT ![ptr].value = @ + 1]

\* it->second->inc() through a pointer to a deleted Counter: the fetch_add
\* goes to freed memory, or to the Counter that was made there since
DanglingInc(h, ptr) ==
    {h} \cup {CounterInc(h, q) : q \in {i \in DOMAIN h : i > ptr /\ h[i].alive}}

\* the key of the second find() in incrementHttpRequestCount
FallbackKey(key, default_key) == key

\* YahatInstanceMetrics::incrementHttpRequestCount(route, method), called
\* by onRequest for the route it has found
incrementHttpRequestCount(route, method) ==
    LET key == RequestKey(method, route)
        default_key == DefaultKey(route)
        second == FallbackKey(key, default_key)
        it == IF key \in DOMAIN http_requests_ THEN key
              ELSE IF second \in DOMAIN http_requests_ THEN second
              ELSE <<>>
    IN  IF it = <<>> THEN objects' = objects
        ELSE LET ptr == http_requests_[it]
             IN  IF objects[ptr].alive
                 THEN objects' = CounterInc(objects, ptr)
                 ELSE objects' \in DanglingInc(objects, ptr)

\* HttpServer::onRequest up to the call of the handler: the route is found
\* and its request counter incremented
onRequestCount(target, type) ==
    /\ hres.n < MaxCalls
    /\ LET best_route == FindRoute(DOMAIN routes, target, NoRoute)
       IN  /\ best_route # NoRoute
           /\ incrementHttpRequestCount(best_route, type)
           /\ hres' = [op |-> "increment", route |-> best_route,
                       method |-> type, n |-> hres.n + 1]
    /\ UNCHANGED <<metrics_, http_requests_, routes>>
    /\ RequestsFrame

---------------------------------------------------------------------------
(* Metrics::ScopedTimer, and Request::requestDuration                      *)

TimerFrame ==
    /\ UNCHANGED <<ctx_stopped, workers_, tasksteps, stoppc, joined, promise_,
                   runpc>>
    /\ UNCHANGED listenerVars
    /\ UNCHANGED requestVars
    /\ UNCHANGED sessionVars
    /\ UNCHANGED sseVars
    /\ UNCHANGED metricsVars

\* a timing that scoped() has started
NewTiming == [cancelled |-> FALSE, released |-> FALSE]

\* explicit ScopedTimer(metricT* histogram): metric_{histogram}
Constructed(ts, t, o) ==
    [ts EXCEPT ![t] = [live |-> TRUE, metric_ |-> TRUE, of |-> o,
                       holds |-> o]]

\* metric_ of the new object when ScopedTimer(ScopedTimer&& v) is done:
\* the initialiser copies v.metric_, the body then clears metric_
MovedToMetric(m) == FALSE

\* metric_ of v when ScopedTimer(ScopedTimer&& v) is done: not touched
MovedFromMetric(m) == m

\* ScopedTimer(ScopedTimer&& v) making the object t; the holder of the
\* timing is now t
MoveConstructed(ts, t, v) ==
    [ts EXCEPT ![t] = [live |-> TRUE,
                       metric_ |-> MovedToMetric(ts[v].metric_),
                       of |-> ts[v].of,
                       holds |-> ts[v].holds],
               ![v] = [@ EXCEPT !.metric_ = MovedFromMetric(ts[v].metric_),
                                !.holds = 0]]

\* the observe() calls after ~ScopedTimer of t: one if metric_ is set
ObservedAfter(obs, ts, t) ==
    IF ts[t].metric_
    THEN Append(obs, [of |-> ts[t].of, holder |-> ts[t].holds = ts[t].of])
    ELSE obs

\* the timings after the object t is destroyed
ReleasedAfter(st, ts, t) ==
    IF ts[t].holds # 0 THEN [st EXCEPT ![ts[t].holds].released = TRUE]
    ELSE st

\* auto timer = histogram->scoped(); (the prvalue initialises the object)
TimerScoped(t) ==
    /\ ~timers[t].live
    /\ Len(started) < MaxTimings
    /\ timers' = Constructed(timers, t, Len(started) + 1)
    /\ started' = Append(started, NewTiming)
    /\ UNCHANGED tobserved
    /\ TimerFrame

\* ScopedTimer t{std::move(v)};
TimerMove(t, v) ==
    /\ t # v
    /\ ~timers[t].live
    /\ timers[v].live
    /\ timers' = MoveConstructed(timers, t, v)
    /\ UNCHANGED <<started, tobserved>>
    /\ TimerFrame

\* t = std::move(v); for a t that holds no timing
TimerMoveAssign(t, v) ==
    /\ t # v
    /\ timers[t].live
    /\ timers[t].holds = 0
    /\ ~timers[t].metric_
    /\ timers[v].live
    /\ timers' = [timers EXCEPT
                    ![t] = [live |-> TRUE, metric_ |-> timers[v].metric_,
                            of |-> timers[v].of, holds |-> timers[v].holds],
                    ![v] = [@ EXCEPT !.metric_ = FALSE, !.holds = 0]]
    /\ UNCHANGED <<started, tobserved>>
    /\ TimerFrame

\* ScopedTimer::cancel()
TimerCancel(t) ==
    /\ timers[t].live
    /\ timers[t].holds # 0
    /\ timers' = [timers EXCEPT ![t].metric_ = FALSE]
    /\ started' = [started EXCEPT ![timers[t].holds].cancelled = TRUE]
    /\ UNCHANGED tobserved
    /\ TimerFrame

\* ~ScopedTimer(): metric_->observe(duration) if metric_ is set
TimerDestroy(t) ==
    /\ timers[t].live
    /\ tobserved' = ObservedAfter(tobserved, timers, t)
    /\ started' = ReleasedAfter(started, timers, t)
    /\ timers' = [timers EXCEPT ![t] = NoTimer]
    /\ TimerFrame

\* onRequest: req.requestDuration = hist->scoped(); the empty optional t is
\* move-constructed from the temporary v, which is destroyed at the end of
\* the statement
attachRequestDuration(t, v) ==
    /\ t # v
    /\ ~timers[t].live
    /\ ~timers[v].live
    /\ Len(started) < MaxTimings
    /\ LET made == Constructed(timers, v, Len(started) + 1)
           moved == MoveConstructed(made, t, v)
       IN  /\ tobserved' = ObservedAfter(tobserved, moved, v)
           /\ started' =
                ReleasedAfter(Append(started, NewTiming), moved, v)
           /\ timers' = [moved EXCEPT ![v] = NoTimer]
    /\ TimerFrame

---------------------------------------------------------------------------
(* Session tasks on the worker threads                                     *)

\* what the processing of one request in DoSession can do: handle it and go
\* on ("ok"); find the end of the stream ("eos"); throw std::runtime_error
\* from decompressGzip or to_type ("decode"); have the authenticator throw a
\* std::exception ("auth"); have the handler throw a std::exception
\* ("handler") or a Response ("response"), as its contract allows
StepOutcomes == {"ok", "eos", "decode", "auth", "handler", "response"}

Failures == {"decode", "auth", "handler", "response"}

\* the outcomes onRequest turns into a reply in its catch blocks
CaughtByOnRequest(o) == o \in {"handler", "response"}

\* the outcomes that leave DoSession as an exception
ThrownFromDoSession(o) == o \in Failures /\ ~CaughtByOnRequest(o)

EscapesUncaught(o) == ThrownFromDoSession(o)

\* the exceptions that leave the spawned coroutine and reach ctx_.run():
\* none, the lambda around DoSession catches std::exception
Escapes(o) == FALSE

\* the state of the task after the request
TaskAfter(o) ==
    IF ThrownFromDoSession(o) THEN "caught"
    ELSE IF o = "eos" THEN "ended"
    ELSE "running"

\* a worker runs the session task i for one request
sessionStep(w, i, o) ==
    /\ workers_[w] = "handler"
    /\ i \in DOMAIN sessions
    /\ sessions[i].state = "running"
    /\ sessions[i].n < MaxRequests
    /\ sessions' = [sessions EXCEPT ![i] = [state |-> TaskAfter(o),
                                            n |-> @.n + 1,
                                            last |-> o]]
    /\ workers_' = [workers_ EXCEPT ![w] = IF Escapes(o) THEN "done"
                                           ELSE "run"]
    /\ UNCHANGED <<ctx_stopped, tasksteps, stoppc, joined, promise_, runpc>>
    /\ UNCHANGED <<lpc, errorCnt, acceptLog>>
    /\ UNCHANGED requestVars
    /\ UNCHANGED timerVars
    /\ UNCHANGED sessionVars
    /\ UNCHANGED sseVars
    /\ UNCHANGED metricsVars

---------------------------------------------------------------------------
(* Spec: sessions on a configured server                                   *)

\* the route tables the sessions of Spec run on
SessionPrefixes == {<<"/">>, <<"/", "a">>}

SessionTargets == Str(2) \ {<<>>}

SessionTypes == {"GET", "POST", "OPTIONS"}

SessionRouteTables ==
    UNION {[D -> Handlers] : D \in SUBSET SessionPrefixes}

Init ==
    /\ cfg \in Configs
    /\ routes \in SessionRouteTables
    /\ pc = "Reading"
    /\ close = FALSE
    /\ request = NoRequest
    /\ response = NoResponse
    /\ reply = NoReply
    /\ invoked = {}
    /\ handlerResult = NoOutcome
    /\ lastWrite = "none"
    /\ nreq = 0
    /\ written = <<>>
    /\ SseIdle
    /\ MetricsIdle
    /\ ReactorIdle

Next ==
    \/ ReadEnd
    \/ \E keep_alive \in BOOLEAN : ReadUndecodable(keep_alive)
    \/ \E rt \in SessionTypes, target \in SessionTargets,
          keep_alive \in BOOLEAN, access \in AuthVerdicts(cfg),
          o \in HandlerOutcomes :
            ReadRequest(rt, target, keep_alive, access, o)
    \/ \E ok \in BOOLEAN : WriteReply(ok)
    \/ ContinuationReturns
    \/ Shutdown
    \/ NewSession

Spec == Init /\ [][Next]_vars

---------------------------------------------------------------------------
(* SpecRoute: addRoute before start(), then onRequest on the table         *)

\* HttpServer::addRoute(target, handler); an empty target throws
addRoute(target, handler) ==
    /\ pc = "Configuring"
    /\ Len(target) # 0
    /\ target \in DOMAIN routes \/ Cardinality(DOMAIN routes) < MaxRoutes
    /\ routes' = [k \in DOMAIN routes \cup {target} |->
                    IF k = target THEN handler ELSE routes[k]]
    /\ UNCHANGED <<cfg, pc, close, request, response, reply, invoked,
                   handlerResult, lastWrite, nreq, written>>
    /\ UNCHANGED sseVars
    /\ UNCHANGED metricsVars
    /\ UNCHANGED serverVars

\* HttpServer::start()
start ==
    /\ pc = "Configuring"
    /\ pc' = "Serving"
    /\ UNCHANGED <<cfg, routes, close, request, response, reply, invoked,
                   handlerResult, lastWrite, nreq, written>>
    /\ UNCHANGED sseVars
    /\ UNCHANGED metricsVars
    /\ UNCHANGED serverVars

\* a call of HttpServer::onRequest(req) with req.target = target
CallOnRequest(rt, target, o) ==
    /\ pc = "Serving"
    /\ pc' = "Called"
    /\ LET d == onRequest(routes, target, o)
       IN  /\ request' = [type |-> rt, target |-> target, route |-> d.route,
                          keep_alive |-> TRUE, access |-> TRUE,
                          authenticated |-> TRUE]
           /\ response' = d.response
           /\ invoked' = d.invoked
           /\ handlerResult' = d.result
    /\ UNCHANGED <<cfg, routes, close, reply, lastWrite, nreq, written>>
    /\ UNCHANGED sseVars
    /\ UNCHANGED metricsVars
    /\ UNCHANGED serverVars

\* the caller is done with the Request and the Response
RequestDone ==
    /\ pc = "Called"
    /\ pc' = "Serving"
    /\ request' = NoRequest
    /\ response' = NoResponse
    /\ invoked' = {}
    /\ handlerResult' = NoOutcome
    /\ UNCHANGED <<cfg, routes, close, reply, lastWrite, nreq, written>>
    /\ UNCHANGED sseVars
    /\ UNCHANGED metricsVars
    /\ UNCHANGED serverVars

InitRoute ==
    /\ cfg = DefaultConfig
    /\ routes = <<>>
    /\ pc = "Configuring"
    /\ close = FALSE
    /\ request = NoRequest
    /\ response = NoResponse
    /\ reply = NoReply
    /\ invoked = {}
    /\ handlerResult = NoOutcome
    /\ lastWrite = "none"
    /\ nreq = 0
    /\ written = <<>>
    /\ SseIdle
    /\ MetricsIdle
    /\ ReactorIdle

NextRoute ==
    \/ \E target \in Prefixes, handler \in Handlers : addRoute(target, handler)
    \/ start
    \/ \E target \in Targets, o \in HandlerOutcomes :
          CallOnRequest("GET", target, o)
    \/ RequestDone

SpecRoute == InitRoute /\ [][NextRoute]_vars

---------------------------------------------------------------------------
(* SpecSse: one session whose handler returned a queue-based continuation  *)

\* a handler that returns a Response carrying the continuation
SseOutcome ==
    CHOOSE o \in HandlerOutcomes : o.kind = "return" /\ o.cont /\ ~o.close

InitSse ==
    /\ cfg = DefaultConfig
    /\ routes = (<<"/">> :> "h1")
    /\ pc = "Continuation"
    /\ close = FALSE
    /\ LET d == onRequest(routes, <<"/">>, SseOutcome)
       IN  /\ request = [type |-> "GET", target |-> <<"/">>,
                         route |-> d.route, keep_alive |-> TRUE,
                         access |-> TRUE, authenticated |-> TRUE]
           /\ response = d.response
           /\ invoked = d.invoked
           /\ handlerResult = d.result
    /\ reply = NoReply
    /\ lastWrite = "none"
    /\ nreq = 1
    /\ written = <<>>
    /\ SseIdle
    /\ MetricsIdle
    /\ ReactorIdle

\* the steps of the session coroutine inside and after proceed()
WorkerNext ==
    \/ proceedingStart
    \/ proceedingQueueEmpty
    \/ sendFront
    \/ \E ok \in BOOLEAN : sendWriteHeader(ok)
    \/ \E ok \in BOOLEAN : sendWriteChunk(ok)
    \/ proceedingPop
    \/ proceedingIfActive
    \/ proceedingAsyncWait
    \/ proceedingWake
    \/ proceedingWhileActive
    \/ proceedReturns
    \/ Shutdown

\* the steps other threads take once they are inside sendSse / closeSse
CallsComplete ==
    \/ \E p \in Producers : sendSsePushed(p)
    \/ \E p \in Producers : sendSseCancelOne(p)
    \/ closeSseCancel

NextSse ==
    \/ WorkerNext
    \/ CallsComplete
    \/ \E p \in Producers, m \in MsgIds \cup {EmptyMsg} : sendSsePush(p, m)
    \/ closeSseSetInactive
    \/ timerExpires
    \/ peerCloses
    \/ probeReadCompletes

SpecSse == InitSse /\ [][NextSse]_vars

\* the io_context keeps running the session coroutine and the completion
\* handlers, time passes, and a thread inside sendSse or closeSse finishes
\* the call
SpecSseFair ==
    /\ InitSse
    /\ [][NextSse]_vars
    /\ WF_vars(WorkerNext)
    /\ WF_vars(CallsComplete)
    /\ WF_vars(timerExpires)
    /\ WF_vars(probeReadCompletes)

---------------------------------------------------------------------------
(* SpecRegistry: calls on one Metrics registry                             *)

\* no server configured, no session
ServerIdle ==
    /\ cfg = DefaultConfig
    /\ routes = <<>>
    /\ pc = "Configuring"
    /\ close = FALSE
    /\ request = NoRequest
    /\ response = NoResponse
    /\ reply = NoReply
    /\ invoked = {}
    /\ handlerResult = NoOutcome
    /\ lastWrite = "none"
    /\ nreq = 0
    /\ written = <<>>

InitRegistry ==
    /\ ServerIdle
    /\ SseIdle
    /\ MetricsIdle
    /\ ReactorIdle

NextRegistry ==
    \/ \E type \in AddTypes, name \in MetricNames, help \in Helps,
          unit \in Units, labels \in LabelVectors :
            AddMetric(type, name, help, unit, labels)
    \/ \E source \in DOMAIN metrics_, labels \in LabelVectors :
          clone(source, labels)
    \/ \E name \in MetricNames, labels \in LabelVectors,
          type \in LookupTypes : lookup(name, labels, type)
    \/ generate

SpecRegistry == InitRegistry /\ [][NextRegistry]_vars

---------------------------------------------------------------------------
(* SpecCounter: threads calling inc() on one Counter, and a reader         *)

InitCounter ==
    /\ ServerIdle
    /\ SseIdle
    /\ MetricsIdle
    /\ ReactorIdle

NextCounter ==
    \/ \E t \in Threads, v \in IncValues : inc(t, v)
    \/ \E t \in Threads : touch(t)
    \/ value

SpecCounter == InitCounter /\ [][NextCounter]_vars

---------------------------------------------------------------------------
(* SpecHistogram: observations on one Histogram                            *)

InitHistogram ==
    /\ ServerIdle
    /\ SseIdle
    /\ RegistryIdle
    /\ CounterIdle
    /\ HistogramConstructed
    /\ SummaryIdle
    /\ StatesetIdle
    /\ GaugeIdle
    /\ ReactorIdle

NextHistogram == \E v \in ObserveValues : Histogram_observe(v)

SpecHistogram == InitHistogram /\ [][NextHistogram]_vars

---------------------------------------------------------------------------
(* SpecSummary: observations on one Summary of capacity MaxSamples         *)

InitSummary ==
    /\ ServerIdle
    /\ SseIdle
    /\ MetricsIdle
    /\ ReactorIdle

NextSummary ==
    \/ \E v \in ObserveValues : Summary_observe(v)
    \/ calculateQuantiles

SpecSummary == InitSummary /\ [][NextSummary]_vars

---------------------------------------------------------------------------
(* SpecStateset: calls on one Stateset                                     *)

InitStateset ==
    /\ ServerIdle
    /\ SseIdle
    /\ MetricsIdle
    /\ ReactorIdle

NextStateset ==
    \/ \E state \in StateArgs, on \in BOOLEAN :
          setStateByName(state, on)
    \/ \E index \in IndexArgs, on \in BOOLEAN : setState(index, on)
    \/ \E index \in IndexArgs : setExclusiveState(index)
    \/ \E state \in StateArgs : getStateByName(state)
    \/ \E index \in IndexArgs : getState(index)

SpecStateset == InitStateset /\ [][NextStateset]_vars

---------------------------------------------------------------------------
(* SpecGauge: Scoped guards on one Gauge                                   *)

InitGauge ==
    /\ ServerIdle
    /\ SseIdle
    /\ MetricsIdle
    /\ ReactorIdle

NextGauge ==
    \/ \E g, v \in Guards : ScopedMove(g, v)
    \/ \E g, v \in Guards : ScopedMoveAssign(g, v)
    \/ \E g \in Guards : ScopedDefault(g)
    \/ \E g \in Guards : ScopedAcquire(g)
    \/ \E g \in Guards : ScopedDestroy(g)

SpecGauge == InitGauge /\ [][NextGauge]_vars

---------------------------------------------------------------------------
(* SpecStop: a started server, its worker threads, and a call of stop()    *)

InitStop ==
    /\ ServerIdle
    /\ SseIdle
    /\ MetricsIdle
    /\ ReactorStarted

WorkerSteps ==
    \E w \in Workers :
        \/ workerDispatch(w)
        \/ workerHandlerDone(w)
        \/ workerRunReturns(w)

StopSteps == stopJoin \/ stopSetValue

NextStop ==
    \/ WorkerSteps
    \/ \E w \in Workers : workerException(w)
    \/ stopCtx
    \/ StopSteps
    \/ runReturns

\* SpecRequests: routes added to a server with metrics, and requests
\* dispatched to them
InitRequests ==
    /\ ServerIdle
    /\ SseIdle
    /\ MetricsIdle
    /\ ReactorIdle

NextRequests ==
    \/ \E target \in RequestRoutes, handler \in Handlers,
          methods \in MethodLists : addRoute_(target, handler, methods)
    \/ \E target \in RequestTargets, type \in RequestMethods :
          onRequestCount(target, type)

SpecRequests == InitRequests /\ [][NextRequests]_vars

\* SpecTimer: ScopedTimer objects on one histogram
InitTimer ==
    /\ ServerIdle
    /\ SseIdle
    /\ MetricsIdle
    /\ ReactorIdle

NextTimer ==
    \/ \E t \in Timers : TimerScoped(t)
    \/ \E t, v \in Timers : TimerMove(t, v)
    \/ \E t, v \in Timers : TimerMoveAssign(t, v)
    \/ \E t \in Timers : TimerCancel(t)
    \/ \E t \in Timers : TimerDestroy(t)
    \/ \E t, v \in Timers : attachRequestDuration(t, v)

SpecTimer == InitTimer /\ [][NextTimer]_vars

\* SpecAccept: a started server with one endpoint listening
ListenerStarted ==
    /\ lpc = "test"
    /\ errorCnt = 0
    /\ acceptLog = <<0>>
    /\ sessions = <<>>

InitAccept ==
    /\ ServerIdle
    /\ SseIdle
    /\ MetricsIdle
    /\ WorkersStarted
    /\ ListenerStarted
    /\ RequestsIdle
    /\ TimersIdle

NextAccept ==
    \/ acceptLoopTest
    \/ acceptFails
    \/ acceptSucceeds
    \/ stopCtx

SpecAccept == InitAccept /\ [][NextAccept]_vars

\* SpecFailure: a started server whose sessions fail
NextFailure ==
    \/ acceptLoopTest
    \/ acceptSucceeds
    \/ \E w \in Workers : workerDispatch(w)
    \/ \E w \in Workers : workerHandlerDone(w)
    \/ \E w \in Workers, i \in 1..MaxAccepts, o \in StepOutcomes :
          sessionStep(w, i, o)

SpecFailure == InitAccept /\ [][NextFailure]_vars

\* threads that can run do run; nothing makes anyone call stop()
SpecStop ==
    /\ InitStop
    /\ [][NextStop]_vars
    /\ WF_vars(WorkerSteps)
    /\ WF_vars(StopSteps)
    /\ WF_vars(runReturns)

---------------------------------------------------------------------------
(* Claims about the route dispatcher (checked under SpecRoute)             *)

\* "T = P or T starts with P followed by '/'"
PrefixOfTarget(P, T) ==
    \/ T = P
    \/ /\ Len(T) > Len(P)
       /\ SubSeq(T, 1, Len(P) + 1) = P \o <<"/">>

\* the registered prefixes that match the target of the current request
MatchingPrefixes == {P \in DOMAIN routes : PrefixOfTarget(P, request.target)}

\* C1: whenever onRequest has been called with a target that some registered
\* prefix matches, exactly one handler was invoked: the one registered for
\* the longest matching prefix P, and request.route was P at that call.
C1_LongestPrefixDispatch ==
    (pc = "Called" /\ MatchingPrefixes # {}) =>
        \E P \in MatchingPrefixes :
            /\ \A Q \in MatchingPrefixes : Len(Q) <= Len(P)
            /\ invoked = {[handler |-> routes[P], route |-> P]}
            /\ request.route = P

\* two registered prefixes match the target and differ in length
C1_Witness ==
    /\ pc = "Called"
    /\ Cardinality(MatchingPrefixes) = 2
    /\ \E P \in MatchingPrefixes :
          /\ invoked = {[handler |-> routes[P], route |-> P]}
          /\ \E Q \in MatchingPrefixes :
                Len(Q) < Len(P) /\ routes[Q] # routes[P]

\* C2: whenever onRequest has been called with a target no registered prefix
\* matches, no handler was invoked and the Response is 404 "Document not
\* found".
C2_NoMatchIs404 ==
    (pc = "Called" /\ MatchingPrefixes = {}) =>
        /\ invoked = {}
        /\ response = Resp(404, "Document not found")

\* a registered prefix is a proper prefix of the target without the '/'
\* boundary (prefix /api, target /apix), and the reply is the 404
C2_Witness ==
    /\ pc = "Called"
    /\ MatchingPrefixes = {}
    /\ \E P \in DOMAIN routes :
          /\ Len(request.target) > Len(P)
          /\ SubSeq(request.target, 1, Len(P)) = P
    /\ response.code = 404

---------------------------------------------------------------------------
(* Claims about the session (checked under Spec)                           *)

HandlerFailed == handlerResult.kind \in {"throwResponse", "throwException"}

AccessDenied ==
    /\ request.type # "NONE"
    /\ ~request.access
    /\ ~(request.type = "OPTIONS" /\ cfg.auto_handle_cors)

\* C4: a request the authenticator denied (and the automatic pre-flight did
\* not answer) reaches no handler, and its reply is 401 with
\* WWW-Authenticate "Basic realm=<realm>", "Basic", or no such field,
\* according to enable_http_basic_auth and http_basic_auth_realm.
C4_AccessDeniedIs401 ==
    AccessDenied =>
        /\ pc = "Writing"
        /\ invoked = {}
        /\ reply.code = 401
        /\ cfg.enable_http_basic_auth /\ cfg.http_basic_auth_realm # ""
              => reply.www_authenticate
                    = <<"Basic realm=", cfg.http_basic_auth_realm>>
        /\ cfg.enable_http_basic_auth /\ cfg.http_basic_auth_realm = ""
              => reply.www_authenticate = <<"Basic">>
        /\ ~cfg.enable_http_basic_auth => reply.www_authenticate = <<>>

\* a denied request whose target has a route, on a server with a realm
C4_Witness ==
    /\ AccessDenied
    /\ cfg.enable_http_basic_auth
    /\ cfg.http_basic_auth_realm = "yahat"
    /\ \E P \in DOMAIN routes : PrefixOfTarget(P, request.target)
    /\ reply.www_authenticate = <<"Basic realm=", "yahat">>

\* C5: with auto_handle_cors, an OPTIONS request is answered with 200 and
\* the four CORS fields, and no handler is invoked for it.
C5_OptionsBypass ==
    (request.type = "OPTIONS" /\ cfg.auto_handle_cors) =>
        /\ pc = "Writing"
        /\ reply.code = 200
        /\ CorsHeaders \subseteq reply.headers
        /\ invoked = {}

\* an authorised OPTIONS request whose target has a route
C5_Witness ==
    /\ request.type = "OPTIONS"
    /\ cfg.auto_handle_cors
    /\ request.access
    /\ \E P \in DOMAIN routes : PrefixOfTarget(P, request.target)
    /\ reply.code = 200

\* C6: a Response with a continuation puts the session in the continuation
\* with no reply built or written; from there the only step is the return of
\* proceed(), which sets close and leads to the shutdown step, and from the
\* shutdown step the session only ends: no request is read in between.
C6_ContinuationExclusive ==
    /\ [](response.cont => pc = "Continuation")
    /\ [](pc = "Continuation" => reply = NoReply /\ lastWrite = "none")
    /\ [][pc = "Continuation" =>
            pc' = "Shutdown" /\ close' /\ reply' = NoReply
            /\ lastWrite' = "none"]_vars
    /\ [][pc = "Shutdown" => pc' = "Closed"]_vars

\* a continuation on a keep-alive request whose Response did not ask to close
C6_Witness ==
    /\ pc = "Continuation"
    /\ request.keep_alive
    /\ ~response.close
    /\ ~close

---------------------------------------------------------------------------
(* Claims about the SSE continuation (checked under SpecSse, SpecSseFair)  *)

Range(s) == {s[i] : i \in DOMAIN s}

\* s can be obtained from t by deleting elements
RECURSIVE IsSubsequence(_, _)
IsSubsequence(s, t) ==
    IF s = <<>> THEN TRUE
    ELSE IF t = <<>> THEN FALSE
    ELSE IF Head(s) = Head(t) THEN IsSubsequence(Tail(s), Tail(t))
    ELSE IsSubsequence(s, Tail(t))

\* C7: once the peer has closed an initialised SSE connection and the probe
\* read has completed, the continuation is marked inactive and no further
\* chunk is written.
C7_PeerCloseStopsSse ==
    /\ [](probe = "completed" => ~active)
    /\ [][probe = "completed" => wire' = wire]_vars

\* C8: under any interleaving of sendSse() calls with the worker, the chunks
\* written to the client are a subsequence of the enqueue order: messages go
\* out in the order they were enqueued and none goes out more than once.
C8_ChunksFollowEnqueueOrder == IsSubsequence(wire, enq)

\* C9: while the continuation is active (closeSse() was not called) and no
\* write fails, every non-empty message enqueued with sendSse() is eventually
\* written as one chunk.
C9_EveryMessageWritten ==
    \A m \in MsgIds :
        (m \in Range(enq)) ~>
            \/ m \in Range(wire)
            \/ writeFailed
            \/ closer # "idle"

\* C10: whenever closeSse() has been called, at any point relative to
\* proceed(), the continuation is inactive afterwards, the worker eventually
\* returns from proceeding(), and the session then closes.
C10_CloseSseEndsWorker ==
    /\ [](closer = "done" => ~active)
    /\ (closer = "done") ~> (pc = "Closed")

---------------------------------------------------------------------------
(* Claims about request order and request decoding (checked under Spec)    *)

DecodeFails == pc = "Reading" /\ nreq' = nreq + 1 /\ request' = NoRequest

\* C12: a request with an unsupported verb or with a gzip body that does not
\* decompress (or inflates beyond max_decompressed_size) is answered with a
\* 400 reply on that connection and reaches no handler.
C12_UndecodableIs400 ==
    [][DecodeFails =>
          pc' = "Writing" /\ reply'.code = 400 /\ invoked' = {}]_vars

\* C25: the OPTIONS / auto-CORS check comes first: for an OPTIONS request
\* with auto_handle_cors the authenticator is not invoked; it is invoked
\* only for requests that the automatic pre-flight reply does not answer
C25_PreflightSkipsAuthenticator ==
    (request.type = "OPTIONS" /\ cfg.auto_handle_cors)
        => ~request.authenticated

\* C30: after a reply is written successfully the session goes back to
\* reading if and only if the request was keep-alive, the Response did not
\* set close and carried no continuation; otherwise it goes on to close.
\* The Connection header of each reply agrees with that decision.
C30_KeepAliveDecision ==
    /\ [][(pc = "Writing" /\ lastWrite' = "ok") =>
            LET stay == /\ request.keep_alive
                        /\ ~response.close
                        /\ ~response.cont
            IN  /\ pc' = (IF stay THEN "Reading" ELSE "Shutdown")
                /\ reply.connection =
                      (IF stay THEN "keep-alive" ELSE "close")]_vars
    /\ [][(response.cont /\ pc' # pc) => pc' = "Shutdown"]_vars
    /\ [][pc' = "Closed" => pc = "Shutdown"]_vars

C30_Witness ==
    /\ pc = "Reading"
    /\ lastWrite = "ok"
    /\ written = <<1>>
    /\ ~close

---------------------------------------------------------------------------
(* Claims about the metrics registry                                       *)

\* the registered metrics with this name and this set of labels
SameNameAndLabels(name, labels) ==
    {k \in DOMAIN metrics_ :
        /\ metrics_[k].name = name
        /\ Range(metrics_[k].labels) = Range(labels)}

\* the step is an insert (AddMetric or clone) of a metric whose name and
\* label set are registered already
DuplicateInsert ==
    /\ mres'.op \in {"AddMetric", "clone"}
    /\ mres' # mres \/ metrics_' # metrics_
    /\ \E k \in SameNameAndLabels(mres'.name, mres'.labels) :
          (metrics_[k].type = "info") = (mres'.type = "info")

\* C13: an insert (any Add* or clone) of a metric whose name and label set
\* (in any order of the labels) are registered already is rejected with an
\* error that reaches the caller, and the registry is left as it was
C13_DuplicateRejected ==
    [][DuplicateInsert =>
         mres'.error = "invalid_argument" /\ metrics_' = metrics_]_vars

\* the metrics lookup(name, labels, type) is to find: same name, same label
\* set, the type asked for; an Info metric only when Info is asked for
LookupExpected(name, labels, type) ==
    {k \in SameNameAndLabels(name, labels) :
        IF type = "info" THEN metrics_[k].type = "info"
        ELSE /\ metrics_[k].type # "info"
             /\ type = "none" \/ metrics_[k].type = type}

\* C14: lookup(name, labels, type) returns the registered metric for every
\* permutation of the labels, and nullptr when there is none, when the type
\* differs, and for an Info metric when the Info type is not given
C14_LookupAnyLabelOrder ==
    mres.op = "lookup" =>
        LET e == LookupExpected(mres.name, mres.labels, mres.type)
        IN  IF e = {} THEN mres.ret = <<>> ELSE mres.ret \in e

C14_Witness ==
    /\ mres.op = "lookup"
    /\ mres.labels = <<LabelY, LabelX>>
    /\ mres.ret # <<>>
    /\ metrics_[mres.ret].labels = <<LabelX, LabelY>>

\* the line was written for an Info metric
InfoLine(l) == metrics_[l.key].type = "info"

\* C15: generate renders every Info family before every family that is not
\* Info
C15_InfoFirst ==
    \A i, j \in DOMAIN out :
        (InfoLine(out[j]) /\ ~InfoLine(out[i])) => j < i

C15_Witness ==
    \E i, j \in DOMAIN out :
        /\ InfoLine(out[i])
        /\ ~InfoLine(out[j])
        /\ StrLess(out[j].name, out[i].name)

\* two lines of the same family: same name, same type
SameFamily(a, b) ==
    a.name = b.name /\ metrics_[a.key].type = metrics_[b.key].type

\* C16: for each metric name the # HELP, # TYPE and optional # UNIT lines
\* are written exactly once, and the instances of the name follow that
\* header without another family in between
C16_OneHeaderPerFamily ==
    /\ \A i, j \in DOMAIN out :
          (/\ out[i].kind = "TYPE"
           /\ out[j].kind = "TYPE"
           /\ SameFamily(out[i], out[j])) => i = j
    /\ \A i, j, k \in DOMAIN out :
          (i < k /\ k < j /\ SameFamily(out[i], out[j]))
              => SameFamily(out[i], out[k])

\* C17: the rendered registry always ends with the # EOF line
C17_EndsWithEOF ==
    mres.op = "generate" => out # <<>> /\ out[Len(out)].kind = "EOF"

---------------------------------------------------------------------------
(* Claims about the instruments                                            *)

\* C18: a Counter starts at 0; after inc(v) calls made concurrently its
\* value is the sum of the v; the values read never decrease
C18_CounterSums ==
    /\ [](value_ = SumSeq(incd))
    /\ [](incd = <<>> => value_ = 0)
    /\ [][lastRead' >= lastRead]_vars

C18_Witness ==
    /\ \A t \in Threads : tpc[t] = "touch"
    /\ Len(incd) = MaxIncs
    /\ value_ = SumSeq(incd)
    /\ lastRead > 0
    /\ lastRead < value_

\* the last value of a sequence
Last(s) == s[Len(s)]

\* C19: Histogram::observe(v) increments exactly one bucket (the first
\* whose bound is >= v, else +Inf), count by one and sum by v; the bucket
\* counts add up to count
C19_ObserveOneBucket ==
    /\ [][hobserved' # hobserved =>
            LET v == Last(hobserved')
                le == {i \in DOMAIN BucketBounds : v <= BucketBounds[i]}
            IN  /\ \E i \in DOMAIN buckets_ :
                      /\ buckets_' = [buckets_ EXCEPT ![i] = @ + 1]
                      /\ IF le = {} THEN i = Len(buckets_)
                         ELSE i \in le /\ \A j \in le : i <= j
                /\ count_' = count_ + 1
                /\ sum_' = sum_ + v]_vars
    /\ [](SumSeq(buckets_) = count_)

\* the last n values of a sequence
LastN(s, n) == SubSeq(s, Len(s) - n + 1, Len(s))

\* C20: a Summary of capacity N after k observations has count = k, sum =
\* the total of the values, and holds the most recent min(k, N) of them
C20_SummaryKeepsRecent ==
    LET k == Len(sobserved)
    IN  /\ summary_count_ = k
        /\ summary_sum_ = SumSeq(sobserved)
        /\ observations_ =
              LastN(sobserved, IF k < MaxSamples THEN k ELSE MaxSamples)

C20_Witness ==
    /\ Len(sobserved) > MaxSamples
    /\ Len(observations_) = MaxSamples
    /\ sobserved[1] \notin Range(observations_)

\* the smaller and the larger of two numbers
Min2(a, b) == IF a < b THEN a ELSE b

Max2(a, b) == IF a < b THEN b ELSE a

\* the interpolation (in tenths) between the two samples of the sorted
\* samples s that bracket position q*n - 0.5 clamped to [0, n-1]
Interpolated(s, q) ==
    LET n == Len(s)
        pos == Max2(0, Min2(q * n - (Scale \div 2), Scale * (n - 1)))
        lo == pos \div Scale
        hi == Min2(lo + 1, n - 1)
    IN  Scale * s[lo + 1] + (pos - Scale * lo) * (s[hi + 1] - s[lo + 1])

\* C21: for n > 0 samples calculateQuantiles returns, for every configured
\* quantile q, the interpolation between the two sorted samples bracketing
\* q*n - 0.5 clamped to [0, n-1], so each result lies between the smallest
\* and the largest sample; for an empty buffer it returns 0 for each
C21_QuantilesInterpolate ==
    qres.called =>
        LET s == SortSamples(qres.samples)
        IN  \A i \in DOMAIN Quantiles :
              IF s = <<>> THEN qres.values[i] = 0
              ELSE /\ qres.values[i] = Interpolated(s, Quantiles[i])
                   /\ Scale * s[1] <= qres.values[i]
                   /\ qres.values[i] <= Scale * s[Len(s)]

\* the index (from 0) a call argument stands for: an index itself, or the
\* position of a state name; -1 when there is no such state
ArgIndex(r) ==
    IF r.by = "index"
    THEN (IF r.index < Len(States) THEN r.index ELSE -1)
    ELSE IF \E i \in DOMAIN States : States[i] = r.state
    THEN (CHOOSE i \in DOMAIN States : States[i] = r.state) - 1
    ELSE -1

\* C22: a Stateset starts with all states inactive; setState(i, b) changes
\* only state i, setExclusiveState(i) leaves state i as the only active
\* state, and any call with an unknown name or an index >= the number of
\* states raises out_of_range and changes no state
C22_StatesetOperations ==
    /\ [](sres.op = "none" =>
            \A i \in 0..(Len(States) - 1) : state_values_[i] = 0)
    /\ [][sres'.op # "none" =>
            LET i == ArgIndex(sres')
                is == 0..(Len(States) - 1)
            IN  IF i = -1
                THEN /\ sres'.error = "out_of_range"
                     /\ state_values_' = state_values_
                ELSE /\ sres'.error = "none"
                     /\ sres'.op = "setState" =>
                          /\ state_values_'[i] = (IF sres'.active THEN 1 ELSE 0)
                          /\ \A j \in is \ {i} :
                                state_values_'[j] = state_values_[j]
                     /\ sres'.op = "setExclusiveState" =>
                          \A j \in is : (state_values_'[j] = 1) <=> (j = i)
                     /\ sres'.op = "getState" =>
                          /\ state_values_' = state_values_
                          /\ sres'.ret = (state_values_[i] = 1)]_vars

C22_Witness ==
    /\ sres.op = "setState"
    /\ sres.by = "index"
    /\ sres.index = Len(States)
    /\ sres.error = "out_of_range"
    /\ \E i \in 0..(Len(States) - 1) : state_values_[i] = 1

\* the guards that hold the gauge
Holding == {g \in Guards : scoped[g].live /\ scoped[g].metric_}

\* C23: a Scoped guard increments its gauge once when created and
\* decrements it once when released, also after being moved: the gauge
\* equals the number of guards holding it (the sessions executing) and is
\* back at its prior value when they are gone
C23_ScopedGaugeBalanced == gauge_value_ = Cardinality(Holding)

---------------------------------------------------------------------------
(* Claims about the reactor                                                *)

AllWorkersDone == \A w \in Workers : workers_[w] = "done"

\* a worker takes up a handler of an accept loop or a session
TaskResumed ==
    \E w \in Workers : workers_[w] = "run" /\ workers_'[w] = "handler"

\* C24: after stop() is called on a started server the reactor is stopped,
\* every worker thread terminates, accept loops and session tasks are not
\* resumed any more and have made their last step when stop() returns, and
\* the future of start() becomes ready so that run() returns
C24_StopTerminates ==
    /\ [](stoppc # "idle" => ctx_stopped)
    /\ [][ctx_stopped => ~TaskResumed]_vars
    /\ (stoppc # "idle") ~> (AllWorkersDone /\ runpc = "returned")
    /\ [](stoppc = "done" => AllWorkersDone /\ promise_)
    /\ [][stoppc = "done" => tasksteps' = tasksteps]_vars

C24_Witness ==
    /\ runpc = "returned"
    /\ stoppc = "done"
    /\ AllWorkersDone
    /\ tasksteps > 0

---------------------------------------------------------------------------
(* Claims about the queue and the writes of the SSE continuation           *)

\* the worker reads or changes queue_ in this step
WorkerAccessesQueue ==
    /\ wpc \in {"queue_empty", "front", "pop"}
    /\ wpc' # wpc

\* C26: every access to the SSE message queue happens under the queue
\* mutex: a producer thread and the worker never access the queue at the
\* same time
C26_QueueUnderMutex ==
    [][WorkerAccessesQueue =>
         mutex = 0 /\ \A p \in Producers : ppc[p] # "pushing"]_vars

\* C27: a message enqueued while the continuation is active cancels the
\* worker's timer wait: the worker never waits on the armed timer with a
\* message in the queue and no cancel on its way (no lost wake-up)
C27_NoLostWakeup ==
    ~ /\ wpc = "waiting"
      /\ timer = "armed"
      /\ active
      /\ queue # <<>>
      /\ \A p \in Producers : ppc[p] = "idle"
      /\ closer # "cancel"

\* C28: once a header or chunk write has failed the worker writes nothing
\* further, returns from proceeding(), and the session closes
C28_WriteFailureEndsStream ==
    /\ [][writeFailed => wire' = wire /\ headers' = headers]_vars
    /\ [](writeFailed => ~active)
    /\ writeFailed ~> (wpc = "done" /\ pc = "Closed")

C28_Witness ==
    /\ writeFailed
    /\ pc = "Closed"
    /\ wpc = "done"
    /\ queue # <<>>
    /\ wire # <<>>

\* C29: the response header is written exactly once, on the first send()
\* and before any chunk; the probe read is posted exactly once, right after
\* the header; an empty message initialises the stream but writes no chunk;
\* a failed header write leaves the stream uninitialised and send() fails
C29_HeaderOnce ==
    /\ [](headers <= 1)
    /\ [](sse_initialized <=> headers = 1)
    /\ [](wire # <<>> => headers = 1)
    /\ [](probe # "none" <=> headers = 1)
    /\ [][headers' # headers =>
            /\ wpc = "write_header"
            /\ wire = <<>>
            /\ probe = "none"
            /\ probe' = "posted"]_vars
    /\ [][probe' = "posted" => probe = "posted" \/ headers' = headers + 1]_vars
    /\ [][(wpc = "write_chunk" /\ cur = EmptyMsg) => wire' = wire]_vars
    /\ [][(wpc = "write_header" /\ wpc' # wpc /\ headers' = headers) =>
            /\ ~sse_initialized'
            /\ writeFailed'
            /\ ~active']_vars

C29_Witness ==
    /\ sse_initialized
    /\ headers = 1
    /\ cur = EmptyMsg
    /\ wpc = "pop"
    /\ wire = <<>>
    /\ probe = "posted"
---------------------------------------------------------------------------
(* Claims about the ways a session leaves the request loop                 *)

\* C31: if writing any reply fails -- a handler reply, a 401 reply or an
\* automatic CORS pre-flight reply -- the session goes to Closed: it reads
\* no further request on that connection and invokes no further
\* authenticator or handler.
C31_WriteFailureCloses ==
    lastWrite = "failed" => pc \in {"Shutdown", "Closed"}

\* DoSession has ended: after the shutdown, by `return` or by an exception
TaskEnded == pc \in {"Closed", "Returned", "Aborted"}

\* C32: every session that has entered the request loop performs the Closed
\* step (async_shutdown for TLS, half-close of the send side for plain TCP)
\* before its task ends, on every way of leaving the loop: end of stream,
\* read error, close flag, continuation return, reply write failure and
\* request-decoding failure.
C32_ShutdownOnEveryExit == TaskEnded => pc = "Closed"

\* C37: when the server is constructed with no authenticator (an empty
\* functor), every request's auth verdict keeps its default access = false:
\* every request other than an automatically answered OPTIONS pre-flight is
\* replied to with 401 and no route handler is ever invoked.
C37_NoAuthenticatorDeniesAll ==
    ~cfg.has_authenticator =>
        /\ invoked = {}
        /\ pc # "Continuation"
        /\ ~request.access
        /\ pc = "Writing" =>
              \/ reply.from = "unauthorized" /\ reply.code = 401
              \/ /\ reply.from = "cors"
                 /\ request.type = "OPTIONS"
                 /\ cfg.auto_handle_cors

C37_Witness ==
    /\ ~cfg.has_authenticator
    /\ pc = "Writing"
    /\ request.type = "GET"
    /\ request.target \in DOMAIN routes
    /\ reply.code = 401
    /\ invoked = {}

---------------------------------------------------------------------------
(* Claims about the accept loop                                            *)

\* C33: a listener's accept loop gives up only after 64 consecutive accept
\* errors (or when the reactor is stopped): the error count is reset to zero
\* by every successful accept, so any number of errors interleaved with
\* successes never stops the listener, and each successfully accepted
\* socket spawns exactly one session task.
C33_AcceptLoopGivesUpAfter64 ==
    /\ errorCnt = ConsecutiveErrors
    /\ ConsecutiveErrors <= 64
    /\ Len(sessions) = Accepted
    /\ lpc = "ended" => (ctx_stopped \/ ConsecutiveErrors = 64)
    /\ (lpc = "test" /\ ~ctx_stopped /\ ConsecutiveErrors < 64)
           => ENABLED (lpc' = "accepting" /\ acceptLoopTest)

C33_Witness ==
    /\ lpc = "accepting"
    /\ ~ctx_stopped
    /\ acceptLog = <<63, 63, 0>>
    /\ Len(sessions) = 2

---------------------------------------------------------------------------
(* Claims about the request counters and the pointers of the registry      *)

\* a request has been dispatched to a route
Dispatched == hres'.op = "increment" /\ hres'.n = hres.n + 1

\* the Counter the request should be counted by: the one under the exact
\* (method, route) key, otherwise the one under the route's wildcard key
CounterOf(route, method) ==
    IF RequestKey(method, route) \in DOMAIN http_requests_
    THEN http_requests_[RequestKey(method, route)]
    ELSE IF DefaultKey(route) \in DOMAIN http_requests_
    THEN http_requests_[DefaultKey(route)]
    ELSE 0

\* every Counter that http_requests_ points to exists
CountersExist ==
    \A key \in DOMAIN http_requests_ : objects[http_requests_[key]].alive

\* C34: for every request dispatched to a route, the per-route request
\* counter is incremented exactly once: the counter registered for the
\* exact (method, route) key if it exists, otherwise the route's wildcard
\* counter; no other route's or method's counter changes. (Stated for the
\* servers whose counters all exist.)
C34_RequestCountedOnce ==
    [][(Dispatched /\ CountersExist) =>
          \A ptr \in DOMAIN objects :
              objects'[ptr].value =
                  objects[ptr].value +
                  (IF ptr = CounterOf(hres'.route, hres'.method)
                   THEN 1 ELSE 0)]_vars

\* the registry owns the Counter at ptr
Owned(ptr) == \E key \in DOMAIN metrics_ : metrics_[key].id = ptr

\* C35: every metric pointer handed out by the registry (the return value
\* of AddMetric/Add*/clone, and every counter pointer stored by
\* addHttpRequests) refers to a metric that is owned by the registry and
\* stays alive as long as the registry does, also when the same name and
\* labels are added twice, e.g. when the same route is registered twice.
C35_PointersStayValid ==
    \A key \in DOMAIN http_requests_ :
        /\ objects[http_requests_[key]].alive
        /\ Owned(http_requests_[key])

---------------------------------------------------------------------------
(* Claims about the scoped timer                                           *)

\* the observations recorded for the timing o
ObservationsOf(o) == {i \in DOMAIN tobserved : tobserved[i].of = o}

\* C36: a scoped timer records exactly one observation into its histogram
\* or summary, at the moment it is released, and none if cancel() was
\* called; this holds through moves of the timer, so for each dispatched
\* request whose handler has metrics enabled exactly one duration
\* observation is recorded, when the request object is released and not
\* when the timer is attached to the request.
C36_TimerObservesOnRelease ==
    /\ \A i \in DOMAIN tobserved : tobserved[i].holder
    /\ \A o \in DOMAIN started :
          Cardinality(ObservationsOf(o)) =
              (IF started[o].released /\ ~started[o].cancelled
               THEN 1 ELSE 0)

---------------------------------------------------------------------------
(* Claims about closing and destroying an SSE continuation                 *)

\* C38: once closeSse() has been called on a queue-based SSE continuation,
\* the worker writes no further chunk to the client, even if messages are
\* still queued or are enqueued afterwards, and even if closeSse() was
\* called before proceed() started or while the worker was in the middle of
\* draining the queue.
C38_NoChunkAfterCloseSse == [][closer = "done" => wire' = wire]_vars

\* proceed() has returned and DoSession has dropped `reply` and `cont`, the
\* references that kept the continuation alive
ContinuationDestroyed == wpc = "done"

\* C39: when an SSE continuation object is destroyed (after proceed()
\* returns and the session drops its owning reference), the asynchronous
\* one-byte probe read it posted is no longer outstanding: no pending read
\* targets the continuation's probe buffer and no completion handler
\* capturing the continuation can still run.
C39_NoProbeReadAfterDestroy == ContinuationDestroyed => probe # "posted"

---------------------------------------------------------------------------
(* Claims about failures in a session                                      *)

\* the worker threads that are driving the reactor
Driving == {w \in Workers : workers_[w] # "done"}

\* the task i has just had a failure while it processed a request
FailedIn(i) ==
    /\ i \in DOMAIN sessions
    /\ sessions'[i].n = sessions[i].n + 1
    /\ sessions'[i].last \in Failures

===========================================================================
